---- MODULE Spec2Model ----
(***************************************************************************)
(* ShieldForge: the credential-and-session security core.                  *)
(*                                                                         *)
(*   Spec       the passkey challenge lifecycle: InMemoryChallengeStore    *)
(*              (packages/passkey/src/challenges.ts) and the calls of      *)
(*              PasskeyService (packages/passkey/src/index.ts), with the   *)
(*              clock and the runtime's timer queue.                       *)
(*   SpecService  a PasskeyService of any configuration, called through   *)
(*              its own methods only.                                      *)
(*   SpecInstances  several PasskeyService instances, the module-level    *)
(*              storeChallenge / getChallenge / deleteChallenge and an     *)
(*              injected store, over the store objects of the process.     *)
(*   SpecBytes  generateResetCode / generateSecureToken of one character,  *)
(*              over every value of the random byte.                       *)
(*   SpecHook   the onRequest hook of the Fastify plugin, over requests    *)
(*              with and without a session cookie and an Authorization     *)
(*              header.                                                    *)
(*   SpecRace   resetPassword calls that present the same code, each       *)
(*              taken await by await.                                      *)
(*   SpecAuth   the React AuthProvider: login, logout and refreshAuth      *)
(*              calls, whose awaits settle in any order.                   *)
(*   SpecStore  the InMemoryChallengeStore alone.                          *)
(*   SpecStoreLive  the same, with timeouts that eventually fire.          *)
(*   SpecJwt    generateToken / verifyToken (packages/core/src/jwt.ts) and *)
(*              the ShieldForge facade (packages/core/src/index.ts), over  *)
(*              jsonwebtoken's sign and verify.                            *)
(*   SpecReset  hashResetCode / verifyResetCode                            *)
(*              (packages/core/src/utils.ts).                              *)
(*   SpecGen    generateResetCode / generateSecureToken                    *)
(*              (packages/core/src/utils.ts), over the runtime's random    *)
(*              sources.                                                   *)
(*   SpecFlow   the password-reset flows of the GraphQL resolvers          *)
(*              (packages/graphql/src/resolvers.ts) and of the Fastify     *)
(*              plugin, over the consumer's data source and the mailer.    *)
(***************************************************************************)
EXTENDS Integers, Sequences, FiniteSets, Bags, TLC

(***************************************************************************)
(* Bounds of the model.                                                    *)
(***************************************************************************)
\* verifyRegistration / verifyAuthentication calls in flight at a time.
NumCalls == 2
\* The clock runs from 0 to MaxTime.
MaxTime == 2
\* store() calls made in one behaviour (each schedules one timeout).
MaxTimers == 2
\* The token layer's clock runs from 0 to MaxJwtTime.
MaxJwtTime == 2
\* Lengths up to MaxCodeLength are generated from every sequence of sample
\* bytes; the longer ones from a few byte patterns.
MaxCodeLength == 3
\* The clock of the reset flows runs from 0 to MaxFlowTime hours.
MaxFlowTime == 3
\* NumRacers resetPassword calls run concurrently, while the clock runs from 0 to MaxRaceTime hours.
NumRacers == 2
MaxRaceTime == 2
\* At most NumRefreshes refreshAuth calls await the server at a time.
NumRefreshes == 2
\* At most MaxIssued store() calls are made over all store objects of the process.
MaxIssued == 2

\* The challenge strings, the user ids and the TTLs the callers use.
ChallengeStrings == {"X", "Y"}
UserIds == {"u1", "undefined"}
TTLs == {1, 2}
\* config.challengeTTL of the service
ChallengeTTL == CHOOSE ttl \in TTLs : \A x \in TTLs : x <= ttl
\* challengeTTL: config.challengeTTL || 5 * 60 * 1000
FiveMinutes == 300000
\* A PasskeyConfig may leave challengeTTL and challengeStore out.
UndefinedTTL == 0 - 1
NoStore == "<undefined>"
PasskeyConfigs ==
    [challengeTTL : {UndefinedTTL, 0} \cup TTLs, challengeStore : {NoStore}]

(***************************************************************************)
(* State.                                                                  *)
(***************************************************************************)
VARIABLES
    now,              \* new Date(): the clock
    challengeStore,   \* the InMemoryChallengeStore of the service: its two Maps,
                      \* and the timeouts it has scheduled with the runtime
    config,           \* PasskeyService.config (challengeTTL)
    lastCall,         \* the last call made on the store itself, and the store
                      \* before it
    awaitVerifier,    \* the verify calls in flight, each awaiting the external
                      \* verifier: a bag of [method, expectedChallenge] (the
                      \* local `challenge` is not read again after the check)
    lastGet,          \* what a get() made directly on the store has just returned
                      \* (NoGet after any other step)
    lastVerify,       \* what a verify call has just returned or thrown
                      \* (NoVerify after any other step)
    hist              \* history: what was issued, deleted, consumed, completed

VARIABLES
    jwtNow,           \* the clock of the token layer, in seconds
    jwtToken,         \* the token in hand: issued by generateToken, or made by
                      \* someone else
    jwtIssued,        \* how the token in hand was made
    jwtResult         \* what verifyToken has just answered for it

VARIABLES
    resetCode,        \* the reset code that was hashed for storage
    resetStored,      \* the hash the caller's storage holds for it
    resetAltered,     \* the storage no longer holds what hashResetCode gave
    resetResult       \* what verifyResetCode has just answered

passkeyVars == <<now, challengeStore, config, awaitVerifier, lastGet, lastVerify, lastCall,
                 hist>>
jwtVars == <<jwtNow, jwtToken, jwtIssued, jwtResult>>
VARIABLES
    genResult         \* what generateResetCode / generateSecureToken has just done

resetVars == <<resetCode, resetStored, resetAltered, resetResult>>
VARIABLES
    flowNow,          \* the clock of the reset flows, in hours
    dataSource,       \* the consumer's AuthDataSource: users and password resets
    flowResult        \* the last reset request: its calls, e-mails and outcome

genVars == <<genResult>>
VARIABLES
    heap,             \* the ChallengeStore objects of the process, by name: the
                      \* module-level defaultStore, the stores the instances
                      \* made for themselves, and a store the application injects
    services,         \* the PasskeyService instances: each one's config
    instLast,         \* the last call on an instance, on the module-level
                      \* functions or on the injected store, and the heap before
    issuedBy          \* who has stored each challenge string

flowVars == <<flowNow, dataSource, flowResult>>
instVars == <<heap, services, instLast, issuedBy>>
VARIABLES
    byteResult        \* the last one-character code or token, and the byte the
                      \* random source delivered for it
biasVars == <<byteResult>>

VARIABLES
    request           \* the last request the Fastify onRequest hook has run on:
                      \* its headers, request.user and the error the hook threw
hookVars == <<request>>

VARIABLES
    raceNow,          \* the clock of the concurrent redemptions, in hours
    raceSource,       \* the data source the concurrent resetPassword calls share
    racers            \* the resetPassword calls in flight: where each one is
                      \* between its awaits, what it read and what it answered
raceVars == <<raceNow, raceSource, racers>>

VARIABLES
    provider,         \* the AuthProvider's props and whether its mount effect ran
    auth,             \* its React state: token, user, isLoading
    localStorage,     \* the storage keys of the provider
    refreshes,        \* the refreshAuth calls awaiting refreshAuthProp()
    authLast          \* the last login / logout call or settled refresh
authVars == <<provider, auth, localStorage, refreshes, authLast>>

vars == <<passkeyVars, jwtVars, resetVars, genVars, flowVars, instVars, biasVars, hookVars, raceVars, authVars>>
\* What the steps of one part leave alone.
outsideBias == <<passkeyVars, jwtVars, resetVars, genVars, flowVars, instVars, hookVars, raceVars, authVars>>
outsideHook == <<passkeyVars, jwtVars, resetVars, genVars, flowVars, instVars, biasVars, raceVars, authVars>>
outsideRace == <<passkeyVars, jwtVars, resetVars, genVars, flowVars, instVars, biasVars, hookVars, authVars>>
outsideAuth == <<passkeyVars, jwtVars, resetVars, genVars, flowVars, instVars, biasVars, hookVars, raceVars>>
outsidePasskey == <<jwtVars, resetVars, genVars, flowVars, instVars, biasVars, hookVars, raceVars, authVars>>
outsideJwt == <<passkeyVars, resetVars, genVars, flowVars, instVars, biasVars, hookVars, raceVars, authVars>>
outsideReset == <<passkeyVars, jwtVars, genVars, flowVars, instVars, biasVars, hookVars, raceVars, authVars>>
outsideGen == <<passkeyVars, jwtVars, resetVars, flowVars, instVars, biasVars, hookVars, raceVars, authVars>>
outsideInst == <<passkeyVars, jwtVars, resetVars, genVars, flowVars, biasVars, hookVars, raceVars, authVars>>
outsideFlow == <<passkeyVars, jwtVars, resetVars, genVars, instVars, biasVars, hookVars, raceVars, authVars>>

(***************************************************************************)
(* Maps (JavaScript Map): a function whose domain is the set of keys.      *)
(***************************************************************************)
EmptyMap == [k \in {} |-> 0]
MapSet(m, k, v) == [x \in (DOMAIN m) \cup {k} |-> IF x = k THEN v ELSE m[x]]
MapDelete(m, k) == [x \in (DOMAIN m) \ {k} |-> m[x]]

\* get()'s null, shaped like a Challenge so that it compares with one.
Null == [challenge |-> "null", userId |-> "null", createdAt |-> 0 - 1, expiresAt |-> 0 - 1]

(***************************************************************************)
(* InMemoryChallengeStore.  S is the store: S.challenges and S.timers are  *)
(* its Maps; S.scheduled is the set of timeouts pending in the runtime     *)
(* (setTimeout adds one, clearTimeout or its firing removes it) and        *)
(* S.nextTimer the next timeout handle.  t is the clock at the call.       *)
(***************************************************************************)
NewStore == [challenges |-> EmptyMap, timers |-> EmptyMap, scheduled |-> {}, nextTimer |-> 1]

\* No timeout is scheduled.
store_noTimeout(S, challenge, userId, ttl, t) ==
    [challenges |-> MapSet(S.challenges, challenge,
                           [challenge |-> challenge, userId |-> userId,
                            createdAt |-> t, expiresAt |-> t + ttl]),
     scheduled  |-> S.scheduled,
     timers     |-> MapSet(S.timers, challenge, S.nextTimer),
     nextTimer  |-> S.nextTimer + 1]

store(S, challenge, userId, ttl, t) ==
    [challenges |-> MapSet(S.challenges, challenge,
                           [challenge |-> challenge, userId |-> userId,
                            createdAt |-> t, expiresAt |-> t + ttl]),
     \* the timeout of an earlier store of the same string is not cleared
     scheduled  |-> S.scheduled \cup
                    {[id |-> S.nextTimer, challenge |-> challenge, fireAt |-> t + ttl]},
     timers     |-> MapSet(S.timers, challenge, S.nextTimer),
     nextTimer  |-> S.nextTimer + 1]

\* Every entry is dropped, whatever the key.
delete_allEntries(S, challenge) ==
    [S EXCEPT !.challenges = EmptyMap, !.timers = EmptyMap, !.scheduled = {}]

delete_noMapDelete(S, challenge) ==
    IF challenge \in DOMAIN S.timers
    THEN [S EXCEPT !.scheduled = {x \in S.scheduled : x.id # S.timers[challenge]},
                   !.timers = MapDelete(S.timers, challenge)]
    ELSE S

delete(S, challenge) ==
    LET S1 == [S EXCEPT !.challenges = MapDelete(S.challenges, challenge)]
    IN  IF challenge \in DOMAIN S1.timers
        THEN [S1 EXCEPT !.scheduled = {x \in S1.scheduled : x.id # S1.timers[challenge]},
                        !.timers = MapDelete(S1.timers, challenge)]
        ELSE S1

\* get answers [ret |-> the value returned, S |-> the store afterwards].
get_noExpiryCheck(S, challenge, t) ==
    IF challenge \notin DOMAIN S.challenges
    THEN [ret |-> Null, S |-> S]
    ELSE [ret |-> S.challenges[challenge], S |-> S]

get(S, challenge, t) ==
    IF challenge \notin DOMAIN S.challenges
    THEN [ret |-> Null, S |-> S]
    ELSE IF t > S.challenges[challenge].expiresAt
         THEN [ret |-> Null, S |-> delete(S, challenge)]
         ELSE [ret |-> S.challenges[challenge], S |-> S]

\* Every expired key is deleted; delete(key) touches only that key, so the
\* order of the iteration does not matter.
RECURSIVE deleteAll(_, _)
deleteAll(S, keys) ==
    IF keys = {} THEN S
    ELSE LET k == CHOOSE x \in keys : TRUE
         IN  deleteAll(delete(S, k), keys \ {k})

\* The entries that expire at this very instant are swept too.
clearExpired_inclusive(S, t) ==
    deleteAll(S, {k \in DOMAIN S.challenges : t >= S.challenges[k].expiresAt})

clearExpired(S, t) ==
    deleteAll(S, {k \in DOMAIN S.challenges : t > S.challenges[k].expiresAt})

\* The callback store() handed to setTimeout, for the timeout x.
timeoutCallback(S, x) ==
    [S EXCEPT !.challenges = MapDelete(S.challenges, x.challenge),
              !.timers = MapDelete(S.timers, x.challenge),
              !.scheduled = S.scheduled \ {x}]

(***************************************************************************)
(* History kept beside the program state, to state the claims:             *)
(*   issue[X]     the handle of the last store of X (0: never stored)      *)
(*   expiry[X]    the expiresAt that store recorded                        *)
(*   deleted      strings delete()d, by anyone, and not stored since       *)
(*   consumed     strings a verify call deleted and returned a result for, *)
(*                and not stored since                                     *)
(*   rejected     strings of verify calls whose verifier threw, not stored  *)
(*                since                                                    *)
(*   results[i]   how many verify calls passed the challenge check on the  *)
(*                challenge that the store with handle i stored and got a  *)
(*                verification result (counted up to 2)                    *)
(***************************************************************************)
NoHistory ==
    [issue |-> [X \in ChallengeStrings |-> 0], expiry |-> [X \in ChallengeStrings |-> 0],
     deleted |-> {}, consumed |-> {}, rejected |-> {},
     results |-> [i \in 1..MaxTimers |-> 0]]

histStore(h, S, X, ttl, t) ==
    [h EXCEPT !.issue[X] = S.nextTimer, !.expiry[X] = t + ttl,
              !.deleted = @ \ {X}, !.consumed = @ \ {X}, !.rejected = @ \ {X}]

histDelete(h, X) ==
    IF h.issue[X] = 0 THEN h ELSE [h EXCEPT !.deleted = @ \cup {X}]

histReject(h, X) == [h EXCEPT !.rejected = @ \cup {X}]

histResult(h, X, i) ==
    LET h1 == [histDelete(h, X) EXCEPT !.consumed = @ \cup {X}]
    IN  IF i \in DOMAIN h.results
        THEN [h1 EXCEPT !.results[i] = IF @ < 2 THEN @ + 1 ELSE @]
        ELSE h1

\* What is known of X at time t, before a get.
Situation(h, X, t) ==
    [issue     |-> h.issue[X],
     expired   |-> h.issue[X] # 0 /\ t > h.expiry[X],
     deleted   |-> X \in h.deleted,
     consumed  |-> X \in h.consumed]

NoSituation == [issue |-> 0, expired |-> FALSE, deleted |-> FALSE, consumed |-> FALSE]

NoGet == [challenge |-> "none", ret |-> Null, stored |-> Null, at |-> 0,
          before |-> NoSituation]

\* lastCall.before is the store as the call found it.
NoCall == [op |-> "none", challenge |-> "none", userId |-> "none", at |-> 0,
           before |-> NewStore]
StoreCalled(op, challenge, S, t) ==
    [op |-> op, challenge |-> challenge, userId |-> "none", at |-> t, before |-> S]
\* generate*Options has returned options.challenge, for the user given.
Issued(op, challenge, userId, S, t) ==
    [op |-> op, challenge |-> challenge, userId |-> userId, at |-> t, before |-> S]

\* lastVerify.before is the situation at the call's get, when the call has
\* just made its challenge check (outcome "verifying" or the check's error).
NoVerify == [outcome |-> "none", method |-> "none", expectedChallenge |-> "none",
             verifierInvoked |-> FALSE, before |-> NoSituation]

(***************************************************************************)
(* Init: a fresh PasskeyService with its own InMemoryChallengeStore.       *)
(***************************************************************************)
\* No default: an absent challengeTTL becomes 0.
PasskeyService_noDefaultTTL(cfg, self) ==
    [challengeTTL   |-> IF cfg.challengeTTL = UndefinedTTL THEN 0 ELSE cfg.challengeTTL,
     challengeStore |-> IF cfg.challengeStore = NoStore
                        THEN self \o ".challengeStore" ELSE cfg.challengeStore]

\* new PasskeyService(cfg): the instance's config.  The default TTL is taken
\* for every falsy challengeTTL, 0 included; a store the instance creates
\* for itself is named after the instance.
\* Without a configured store the service falls back to the module's defaultStore.
PasskeyService_sharedDefault(cfg, self) ==
    [challengeTTL   |-> IF cfg.challengeTTL = UndefinedTTL \/ cfg.challengeTTL = 0
                        THEN FiveMinutes ELSE cfg.challengeTTL,
     challengeStore |-> IF cfg.challengeStore = NoStore
                        THEN "defaultStore" ELSE cfg.challengeStore]

PasskeyService(cfg, self) ==
    [challengeTTL   |-> IF cfg.challengeTTL = UndefinedTTL \/ cfg.challengeTTL = 0
                        THEN FiveMinutes ELSE cfg.challengeTTL,
     challengeStore |-> IF cfg.challengeStore = NoStore
                        THEN self \o ".challengeStore" ELSE cfg.challengeStore]

InitServiceWith(cfg) ==
    /\ now = 0
    /\ challengeStore = NewStore
    /\ config = PasskeyService(cfg, "service")
    /\ awaitVerifier = EmptyBag
    /\ lastGet = NoGet
    /\ lastVerify = NoVerify
    /\ lastCall = NoCall
    /\ hist = NoHistory

InitPasskey == InitServiceWith([challengeTTL |-> ChallengeTTL, challengeStore |-> NoStore])

(***************************************************************************)
(* lastGet and lastVerify hold what the last call answered, for the caller *)
(* to read; the caller takes the answer before anything else happens.      *)
(***************************************************************************)
Observed == lastGet = NoGet /\ lastVerify = NoVerify /\ lastCall = NoCall

Observe ==
    /\ ~Observed
    /\ lastGet' = NoGet
    /\ lastVerify' = NoVerify
    /\ lastCall' = NoCall
    /\ UNCHANGED <<now, challengeStore, config, awaitVerifier, hist, outsidePasskey>>

(***************************************************************************)
(* The clock and the runtime's timers.                                     *)
(***************************************************************************)
Tick ==
    /\ Observed
    /\ now < MaxTime
    /\ now' = now + 1
    /\ lastGet' = NoGet
    /\ lastVerify' = NoVerify
    /\ UNCHANGED <<challengeStore, config, awaitVerifier, hist, lastCall, outsidePasskey>>

\* A timeout fires no earlier than its delay, when the event loop gets to it.
TimerFires ==
    \E x \in challengeStore.scheduled :
        /\ Observed
        /\ now >= x.fireAt
        /\ challengeStore' = timeoutCallback(challengeStore, x)
        /\ lastGet' = NoGet
        /\ lastVerify' = NoVerify
        /\ UNCHANGED <<now, config, awaitVerifier, hist, lastCall, outsidePasskey>>

(***************************************************************************)
(* Calls made directly on the store (ChallengeStore.store/get/delete/      *)
(* clearExpired).                                                          *)
(***************************************************************************)
StoreCall ==
    \E X \in ChallengeStrings, u \in UserIds, ttl \in TTLs :
        /\ Observed
        /\ challengeStore.nextTimer <= MaxTimers
        /\ challengeStore' = store(challengeStore, X, u, ttl, now)
        /\ hist' = histStore(hist, challengeStore, X, ttl, now)
        /\ lastGet' = NoGet
        /\ lastVerify' = NoVerify
        /\ lastCall' = StoreCalled("store", X, challengeStore, now)
        /\ UNCHANGED <<now, config, awaitVerifier, outsidePasskey>>

GetCall ==
    \E X \in ChallengeStrings :
        LET r == get(challengeStore, X, now)
        IN  /\ Observed
            /\ challengeStore' = r.S
            /\ lastGet' = [challenge |-> X, ret |-> r.ret,
                           stored |-> IF X \in DOMAIN challengeStore.challenges
                                      THEN challengeStore.challenges[X] ELSE Null,
                           at |-> now,
                           before |-> Situation(hist, X, now)]
            /\ lastVerify' = NoVerify
            /\ lastCall' = StoreCalled("get", X, challengeStore, now)
            /\ UNCHANGED <<now, config, awaitVerifier, hist, outsidePasskey>>

DeleteCall ==
    \E X \in ChallengeStrings :
        /\ Observed
        /\ challengeStore' = delete(challengeStore, X)
        /\ hist' = histDelete(hist, X)
        /\ lastGet' = NoGet
        /\ lastVerify' = NoVerify
        /\ lastCall' = StoreCalled("delete", X, challengeStore, now)
        /\ UNCHANGED <<now, config, awaitVerifier, outsidePasskey>>

ClearExpiredCall ==
    /\ Observed
    /\ challengeStore' = clearExpired(challengeStore, now)
    /\ lastGet' = NoGet
    /\ lastVerify' = NoVerify
    /\ lastCall' = StoreCalled("clearExpired", "none", challengeStore, now)
    /\ UNCHANGED <<now, config, awaitVerifier, hist, outsidePasskey>>

(***************************************************************************)
(* PasskeyService.  The challenge of generate*Options comes from the        *)
(* WebAuthn library's secure random source: a string not issued before.     *)
(***************************************************************************)
generateRegistrationOptions ==
    \E X \in ChallengeStrings, u \in UserIds \ {"undefined"} :
        /\ hist.issue[X] = 0
        /\ Observed
        /\ challengeStore.nextTimer <= MaxTimers
        /\ challengeStore' = store(challengeStore, X, u, config.challengeTTL, now)
        /\ hist' = histStore(hist, challengeStore, X, config.challengeTTL, now)
        /\ lastGet' = NoGet
        /\ lastVerify' = NoVerify
        /\ lastCall' = Issued("generateRegistrationOptions", X, u, challengeStore, now)
        /\ UNCHANGED <<now, config, awaitVerifier, outsidePasskey>>

generateAuthenticationOptions ==
    \E X \in ChallengeStrings :
        /\ hist.issue[X] = 0
        /\ Observed
        /\ challengeStore.nextTimer <= MaxTimers
        /\ challengeStore' = store(challengeStore, X, "undefined", config.challengeTTL, now)
        /\ hist' = histStore(hist, challengeStore, X, config.challengeTTL, now)
        /\ lastGet' = NoGet
        /\ lastVerify' = NoVerify
        /\ lastCall' = Issued("generateAuthenticationOptions", X, "undefined", challengeStore, now)
        /\ UNCHANGED <<now, config, awaitVerifier, outsidePasskey>>

(***************************************************************************)
(* verifyRegistration / verifyAuthentication.  The store's get runs         *)
(* synchronously inside the call; the check `if (!challenge)` that follows  *)
(* the await of its value reads only the call's local, so get, check and    *)
(* the invocation of the verifier are one step.  The call then awaits the   *)
(* external verifier ("awaitVerifier"), and other calls run meanwhile.      *)
(* When the verifier resolves the call deletes the challenge and returns:   *)
(* after the delete it touches nothing shared, so the two are one step.     *)
(***************************************************************************)
\* if (!challenge) throw new Error('Challenge not found or expired')
challengeCheck_alwaysPasses(challenge) == TRUE

\* The challenge must also be bound to a user.
challengeCheck_boundToUser(challenge) == challenge # Null /\ challenge.userId # "undefined"

challengeCheck(challenge) == challenge # Null

beginVerify(method, expectedChallenge) ==
    LET r == get(challengeStore, expectedChallenge, now)
        before == Situation(hist, expectedChallenge, now)
        c == [method |-> method, expectedChallenge |-> expectedChallenge,
              issue |-> before.issue]
    IN  /\ Observed
        /\ BagCardinality(awaitVerifier) < NumCalls
        /\ challengeStore' = r.S
        /\ IF challengeCheck(r.ret)
           THEN /\ awaitVerifier' = awaitVerifier (+) SetToBag({c})
                /\ lastVerify' = [outcome |-> "verifying", method |-> method,
                                  expectedChallenge |-> expectedChallenge,
                                  verifierInvoked |-> TRUE, before |-> before]
           ELSE /\ lastVerify' = [outcome |-> "Challenge not found or expired",
                                  method |-> method,
                                  expectedChallenge |-> expectedChallenge,
                                  verifierInvoked |-> FALSE, before |-> before]
                /\ UNCHANGED awaitVerifier
        /\ lastGet' = NoGet
        /\ UNCHANGED <<now, config, hist, lastCall, outsidePasskey>>

verifyRegistration ==
    \E X \in ChallengeStrings : beginVerify("verifyRegistration", X)

verifyAuthentication ==
    \E X \in ChallengeStrings : beginVerify("verifyAuthentication", X)

\* The verifier's promise resolves (verified or not): the call deletes the
\* challenge and returns the verification.
verifierResolves ==
    \E c \in BagToSet(awaitVerifier), verified \in BOOLEAN :
        /\ Observed
        /\ challengeStore' = delete(challengeStore, c.expectedChallenge)
        /\ hist' = histResult(hist, c.expectedChallenge, c.issue)
        /\ lastVerify' = [outcome |-> IF verified THEN "verified" ELSE "not verified",
                          method |-> c.method,
                          expectedChallenge |-> c.expectedChallenge,
                          verifierInvoked |-> TRUE,
                          before |-> NoSituation]
        /\ awaitVerifier' = awaitVerifier (-) SetToBag({c})
        /\ lastGet' = NoGet
        /\ UNCHANGED <<now, config, lastCall, outsidePasskey>>

\* The challenge is deleted in a finally block, also when the verifier throws.
verifierRejects_deletesChallenge ==
    \E c \in BagToSet(awaitVerifier) :
        /\ Observed
        /\ challengeStore' = delete(challengeStore, c.expectedChallenge)
        /\ hist' = histReject(histDelete(hist, c.expectedChallenge), c.expectedChallenge)
        /\ lastVerify' = [outcome |-> "verifier error",
                          method |-> c.method,
                          expectedChallenge |-> c.expectedChallenge,
                          verifierInvoked |-> TRUE,
                          before |-> NoSituation]
        /\ awaitVerifier' = awaitVerifier (-) SetToBag({c})
        /\ lastGet' = NoGet
        /\ UNCHANGED <<now, config, lastCall, outsidePasskey>>

\* The verifier's promise rejects: the error propagates, nothing is deleted.
verifierRejects ==
    \E c \in BagToSet(awaitVerifier) :
        /\ Observed
        /\ lastVerify' = [outcome |-> "verifier error",
                          method |-> c.method,
                          expectedChallenge |-> c.expectedChallenge,
                          verifierInvoked |-> TRUE,
                          before |-> NoSituation]
        /\ awaitVerifier' = awaitVerifier (-) SetToBag({c})
        /\ lastGet' = NoGet
        /\ hist' = histReject(hist, c.expectedChallenge)
        /\ UNCHANGED <<now, challengeStore, config, lastCall, outsidePasskey>>

NextPasskey ==
    \/ Observe
    \/ Tick
    \/ TimerFires
    \/ StoreCall
    \/ GetCall
    \/ DeleteCall
    \/ ClearExpiredCall
    \/ generateRegistrationOptions
    \/ generateAuthenticationOptions
    \/ verifyRegistration
    \/ verifyAuthentication
    \/ verifierResolves
    \/ verifierRejects

(***************************************************************************)
(* The token layer.  A token is what jsonwebtoken's sign produces or what  *)
(* anyone else hands in:                                                   *)
(*   form     "jws" (three parts that decode) or "garbage"                 *)
(*   alg      the algorithm of its header                                  *)
(*   sig      the key its signature was computed with under alg; "" is the *)
(*            empty signature of an unsigned token, "forged" a signature   *)
(*            made without any of the secrets                              *)
(*   payload  userId, email, iat, exp, iss, aud (Absent: no such claim)    *)
(* An HMAC verifies under a secret exactly when it was made with it.       *)
(***************************************************************************)
Absent == "<undefined>"
NoExp == 0 - 1
Truthy(str) == str # Absent /\ str # ""

Secrets == {"s1", "s2"}
Algorithms == {"HS256", "HS384", "none"}
Payloads == {[userId |-> "u1", email |-> "a@b.com"], [userId |-> "u2", email |-> "c@d.com"]}
Issuers == {"svc-a", "svc-b"}
Audiences == {"api-a", "api-b"}
\* expiresIn, in seconds
ExpiresIns == {1, 2}
\* '7d'
SevenDays == 604800

NoPayload == [userId |-> Absent, email |-> Absent, iat |-> NoExp, exp |-> NoExp,
              iss |-> Absent, aud |-> Absent]
Garbage == [form |-> "garbage", alg |-> Absent, sig |-> Absent, payload |-> NoPayload]
NoToken == [form |-> "none", alg |-> Absent, sig |-> Absent, payload |-> NoPayload]

\* jwt.sign(payload, secret, signOptions) at time t
jwt_sign(payload, secret, signOptions, t) ==
    [form |-> "jws", alg |-> signOptions.algorithm, sig |-> secret,
     payload |-> [userId |-> payload.userId, email |-> payload.email,
                  iat |-> t, exp |-> t + signOptions.expiresIn,
                  iss |-> signOptions.issuer, aud |-> signOptions.audience]]

\* jwt.verify(token, secret, verifyOpts) at time t: the payload, or the
\* error thrown.
Thrown(error) == [ok |-> FALSE, error |-> error, payload |-> NoPayload]
UndefinedAlgorithms == {Absent}

jwt_verify(token, secret, verifyOpts, t) ==
    LET hasSignature == token.sig # ""
        algorithms == IF verifyOpts.algorithms = UndefinedAlgorithms
                      THEN {"HS256", "HS384", "HS512"}
                      ELSE verifyOpts.algorithms
        valid == IF token.alg = "none" THEN token.sig = "" ELSE token.sig = secret
    IN  IF token.form # "jws" THEN Thrown("jwt malformed")
        ELSE IF ~hasSignature /\ secret # "" THEN Thrown("jwt signature is required")
        ELSE IF hasSignature /\ secret = ""
             THEN Thrown("secret or public key must be provided")
        ELSE IF ~hasSignature /\ verifyOpts.algorithms = UndefinedAlgorithms
             THEN Thrown("please specify none in algorithms")
        ELSE IF token.alg \notin algorithms THEN Thrown("invalid algorithm")
        ELSE IF ~valid THEN Thrown("invalid signature")
        ELSE IF token.payload.exp # NoExp /\ t >= token.payload.exp
             THEN Thrown("jwt expired")
        ELSE IF Truthy(verifyOpts.audience) /\ token.payload.aud # verifyOpts.audience
             THEN Thrown("jwt audience invalid")
        ELSE IF Truthy(verifyOpts.issuer) /\ token.payload.iss # verifyOpts.issuer
             THEN Thrown("jwt issuer invalid")
        ELSE [ok |-> TRUE, error |-> "none", payload |-> token.payload]

\* jwt.decode(token): no check at all
jwt_decode(token) ==
    IF token.form # "jws" THEN Thrown("null")
    ELSE [ok |-> TRUE, error |-> "none", payload |-> token.payload]

DEFAULT_VERIFY_OPTIONS == [algorithms |-> {"HS256"}]

generateToken_noIssuer(payload, secret, expiresIn, options, t) ==
    jwt_sign(payload, secret,
             [expiresIn |-> expiresIn, algorithm |-> "HS256", issuer |-> Absent,
              audience |-> IF Truthy(options.audience) THEN options.audience ELSE Absent],
             t)

generateToken(payload, secret, expiresIn, options, t) ==
    jwt_sign(payload, secret,
             [expiresIn |-> expiresIn, algorithm |-> "HS256",
              issuer |-> IF Truthy(options.issuer) THEN options.issuer ELSE Absent,
              audience |-> IF Truthy(options.audience) THEN options.audience ELSE Absent],
             t)

\* The allow-list left to the library, which then goes by the kind of key.
verifyToken_noAllowList(token, secret, options, t) ==
    jwt_verify(token, secret,
               [algorithms |-> UndefinedAlgorithms,
                issuer |-> IF Truthy(options.issuer) THEN options.issuer ELSE Absent,
                audience |-> IF Truthy(options.audience) THEN options.audience ELSE Absent],
               t)

\* The token decoded instead of verified.
verifyToken_decodeOnly(token, secret, options, t) == jwt_decode(token)

verifyToken(token, secret, options, t) ==
    jwt_verify(token, secret,
               [algorithms |-> IF options.algorithms = UndefinedAlgorithms
                               THEN DEFAULT_VERIFY_OPTIONS.algorithms
                               ELSE options.algorithms,
                issuer |-> IF Truthy(options.issuer) THEN options.issuer ELSE Absent,
                audience |-> IF Truthy(options.audience) THEN options.audience ELSE Absent],
               t)

\* new ShieldForge(config): jwtExpiresIn defaults to '7d'
ShieldForge(cfg) ==
    [jwtSecret |-> cfg.jwtSecret,
     jwtExpiresIn |-> IF cfg.jwtExpiresIn = NoExp THEN SevenDays ELSE cfg.jwtExpiresIn,
     jwtIssuer |-> cfg.jwtIssuer, jwtAudience |-> cfg.jwtAudience]

ShieldForge_generateToken(sf, payload, t) ==
    generateToken(payload, sf.jwtSecret, sf.jwtExpiresIn,
                  [issuer |-> sf.jwtIssuer, audience |-> sf.jwtAudience], t)

ShieldForge_verifyToken(sf, token, t) ==
    verifyToken(token, sf.jwtSecret,
                [algorithms |-> UndefinedAlgorithms,
                 issuer |-> sf.jwtIssuer, audience |-> sf.jwtAudience], t)

\* The inputs of the calls.
SignOptions == [issuer : {Absent, ""} \cup Issuers, audience : {Absent} \cup Audiences]
VerifyOptions ==
    [algorithms : {UndefinedAlgorithms, {"HS256"}, {"HS256", "HS384"}},
     issuer : {Absent, ""} \cup Issuers,
     audience : {Absent, "api-a"}]
ShieldForgeConfigs ==
    [jwtSecret : {"s1"}, jwtExpiresIn : {NoExp, 1},
     jwtIssuer : {Absent, "", "svc-a"}, jwtAudience : {Absent, "api-a"}]
\* Tokens made by anyone else: any header algorithm, signed with any key or
\* not at all, with any claims.
OtherTokens ==
    {Garbage} \cup
    [form : {"jws"}, alg : Algorithms, sig : Secrets \cup {"", "forged"},
     payload : [userId : {"u1"}, email : {"a@b.com"}, iat : {0}, exp : {NoExp, 1},
                iss : {Absent} \cup Issuers, aud : {Absent, "api-a"}]]

NoIssued == [by |-> "none", payload |-> [userId |-> Absent, email |-> Absent],
             secret |-> Absent, options |-> [issuer |-> Absent, audience |-> Absent]]
NoResult == [by |-> "none", token |-> NoToken, issued |-> NoIssued, secret |-> Absent,
             options |-> [algorithms |-> UndefinedAlgorithms, issuer |-> Absent,
                          audience |-> Absent],
             at |-> 0, out |-> Thrown("none")]

\* One token is followed from its making to its verification: the clock may
\* advance before the token is made and before it is verified.
InitJwt ==
    /\ jwtNow = 0
    /\ jwtToken = NoToken
    /\ jwtIssued = NoIssued
    /\ jwtResult = NoResult

JwtTick ==
    /\ jwtResult = NoResult
    /\ jwtNow < MaxJwtTime
    /\ jwtNow' = jwtNow + 1
    /\ jwtResult' = NoResult
    /\ UNCHANGED <<jwtToken, jwtIssued, outsideJwt>>

GenerateTokenCall ==
    \E payload \in Payloads, secret \in Secrets, expiresIn \in ExpiresIns,
       options \in SignOptions :
        /\ jwtToken = NoToken
        /\ jwtToken' = generateToken(payload, secret, expiresIn, options, jwtNow)
        /\ jwtIssued' = [by |-> "generateToken", payload |-> payload, secret |-> secret,
                         options |-> options]
        /\ jwtResult' = NoResult
        /\ UNCHANGED <<jwtNow, outsideJwt>>

ShieldForgeGenerateTokenCall ==
    \E cfg \in ShieldForgeConfigs, payload \in Payloads :
        /\ jwtToken = NoToken
        /\ jwtToken' = ShieldForge_generateToken(ShieldForge(cfg), payload, jwtNow)
        /\ jwtIssued' = [by |-> "ShieldForge", payload |-> payload,
                         secret |-> cfg.jwtSecret,
                         options |-> [issuer |-> cfg.jwtIssuer,
                                      audience |-> cfg.jwtAudience]]
        /\ jwtResult' = NoResult
        /\ UNCHANGED <<jwtNow, outsideJwt>>

OtherTokenArrives ==
    \E token \in OtherTokens :
        /\ jwtToken = NoToken
        /\ jwtToken' = token
        /\ jwtIssued' = [NoIssued EXCEPT !.by = "other"]
        /\ jwtResult' = NoResult
        /\ UNCHANGED <<jwtNow, outsideJwt>>

VerifyTokenCall ==
    \E secret \in Secrets, options \in VerifyOptions :
        /\ jwtToken # NoToken
        /\ jwtResult = NoResult
        /\ jwtResult' = [by |-> "verifyToken", token |-> jwtToken, issued |-> jwtIssued,
                         secret |-> secret, options |-> options, at |-> jwtNow,
                         out |-> verifyToken(jwtToken, secret, options, jwtNow)]
        /\ UNCHANGED <<jwtNow, jwtToken, jwtIssued, outsideJwt>>

ShieldForgeVerifyTokenCall ==
    \E cfg \in ShieldForgeConfigs :
        /\ jwtToken # NoToken
        /\ jwtResult = NoResult
        /\ jwtResult' = [by |-> "ShieldForge", token |-> jwtToken, issued |-> jwtIssued,
                         secret |-> cfg.jwtSecret,
                         options |-> [algorithms |-> UndefinedAlgorithms,
                                      issuer |-> cfg.jwtIssuer,
                                      audience |-> cfg.jwtAudience],
                         at |-> jwtNow,
                         out |-> ShieldForge_verifyToken(ShieldForge(cfg), jwtToken, jwtNow)]
        /\ UNCHANGED <<jwtNow, jwtToken, jwtIssued, outsideJwt>>

NextJwt ==
    \/ JwtTick
    \/ GenerateTokenCall
    \/ ShieldForgeGenerateTokenCall
    \/ OtherTokenArrives
    \/ VerifyTokenCall
    \/ ShieldForgeVerifyTokenCall

(***************************************************************************)
(* Reset codes (packages/core/src/utils.ts).  A string is a sequence of    *)
(* one-character strings; a Buffer is a sequence of bytes.                 *)
(***************************************************************************)
\* The bytes of a SHA-256 digest.
DigestBytes == 32

ResetCodes == {"123456", "654321", "482910", "000000"}

\* createHash('sha256').update(code).digest(): the digests of the codes
sha256(code) ==
    CASE code = "123456" ->
           <<141, 150, 158, 239, 110, 202, 211, 194, 154, 58, 98, 146, 128,
             230, 134, 207, 12, 63, 93, 90, 134, 175, 243, 202, 18, 2, 12, 146,
             58, 220, 108, 146>>
    [] code = "654321" ->
           <<72, 31, 108, 192, 81, 17, 67, 204, 221, 126, 45, 27, 27, 148, 250,
             240, 167, 0, 168, 180, 156, 209, 57, 34, 167, 11, 90, 226, 138,
             202, 168, 197>>
    [] code = "482910" ->
           <<65, 213, 159, 240, 172, 152, 21, 214, 13, 53, 101, 20, 152, 6,
             235, 100, 21, 52, 139, 122, 164, 90, 4, 172, 107, 43, 167, 235,
             140, 184, 121, 174>>
    [] code = "000000" ->
           <<145, 180, 209, 66, 130, 63, 125, 32, 197, 240, 141, 246, 145, 34,
             222, 67, 243, 95, 5, 122, 152, 141, 150, 25, 246, 211, 19, 132,
             133, 201, 162, 3>>

HexChars == <<"0", "1", "2", "3", "4", "5", "6", "7", "8", "9",
              "a", "b", "c", "d", "e", "f">>
UpperHexChars == <<"0", "1", "2", "3", "4", "5", "6", "7", "8", "9",
                   "A", "B", "C", "D", "E", "F">>

\* buffer.toString('hex') / digest('hex'): two lower-case digits a byte
hexEncode(bytes) ==
    [i \in 1..(2 * Len(bytes)) |->
        LET byte == bytes[(i + 1) \div 2]
        IN  IF i % 2 = 1 THEN HexChars[(byte \div 16) + 1] ELSE HexChars[(byte % 16) + 1]]

\* The value of a hex digit of either case, -1 for any other character.
unhex(ch) ==
    IF \E v \in 1..16 : HexChars[v] = ch
    THEN (CHOOSE v \in 1..16 : HexChars[v] = ch) - 1
    ELSE IF \E v \in 1..16 : UpperHexChars[v] = ch
         THEN (CHOOSE v \in 1..16 : UpperHexChars[v] = ch) - 1
         ELSE 0 - 1

\* Buffer.from(str, 'hex'): the bytes of the leading pairs of hex digits; the
\* decoding stops at the first pair that is not two hex digits, and a last
\* single character is dropped.
RECURSIVE hexDecode(_, _)
hexDecode(str, i) ==
    IF 2 * i > Len(str) THEN <<>>
    ELSE IF unhex(str[2 * i - 1]) < 0 \/ unhex(str[2 * i]) < 0 THEN <<>>
    ELSE <<16 * unhex(str[2 * i - 1]) + unhex(str[2 * i])>> \o hexDecode(str, i + 1)

Buffer_from_hex(str) == hexDecode(str, 1)

hashResetCode(code) == hexEncode(sha256(code))

\* crypto.timingSafeEqual(a, b): throws when the lengths differ
timingSafeEqual(a, b) ==
    IF Len(a) # Len(b) THEN [threw |-> TRUE, ret |-> FALSE]
    ELSE [threw |-> FALSE, ret |-> a = b]

\* Only the lengths are compared.
verifyResetCode_lengthOnly(code, storedHash) ==
    LET a == Buffer_from_hex(hashResetCode(code))
        b == Buffer_from_hex(storedHash)
    IN  [threw |-> FALSE, ret |-> Len(a) = Len(b)]

verifyResetCode(code, storedHash) ==
    LET codeHash == hashResetCode(code)
        a == Buffer_from_hex(codeHash)
        b == Buffer_from_hex(storedHash)
    IN  IF Len(a) # Len(b) THEN [threw |-> FALSE, ret |-> FALSE]
        ELSE timingSafeEqual(a, b)

\* What the caller's storage may hand back instead of the hash it was given:
\* the hash cut short, with characters appended, with one character replaced
\* by a character that is no hex digit, in upper case, or no hash at all.
toUpperCase(str) ==
    [i \in 1..Len(str) |-> IF unhex(str[i]) < 0 THEN str[i] ELSE UpperHexChars[unhex(str[i]) + 1]]

AlteredHashes(hash) ==
    {SubSeq(hash, 1, n) : n \in 0..(Len(hash) - 1)}
    \cup {hash \o extra : extra \in {<<"0">>, <<"z">>, <<"0", "0">>, <<"z", "z">>}}
    \cup {[hash EXCEPT ![i] = "z"] : i \in 1..Len(hash)}
    \cup {toUpperCase(hash)}
    \cup {<<"n", "o", "t", "-", "a", "-", "v", "a", "l", "i", "d", "-",
            "h", "e", "x", "-", "h", "a", "s", "h">>}

NoHash == <<>>
NoResetResult == [code |-> "none", storedHash |-> NoHash, out |-> [threw |-> FALSE, ret |-> FALSE]]

InitReset ==
    /\ resetCode = "none"
    /\ resetStored = NoHash
    /\ resetAltered = FALSE
    /\ resetResult = NoResetResult

\* A reset is requested: the code is hashed and the hash is stored.
HashResetCodeCall ==
    \E code \in ResetCodes :
        /\ resetCode = "none"
        /\ resetCode' = code
        /\ resetStored' = hashResetCode(code)
        /\ UNCHANGED <<resetAltered, resetResult, outsideReset>>

StoredHashAltered ==
    \E hash \in AlteredHashes(resetStored) :
        /\ resetCode # "none"
        /\ ~resetAltered
        /\ resetResult = NoResetResult
        /\ resetStored' = hash
        /\ resetAltered' = TRUE
        /\ UNCHANGED <<resetCode, resetResult, outsideReset>>

\* The reset is redeemed with a code.
VerifyResetCodeCall ==
    \E code \in ResetCodes :
        /\ resetCode # "none"
        /\ resetResult = NoResetResult
        /\ resetResult' = [code |-> code, storedHash |-> resetStored,
                           out |-> verifyResetCode(code, resetStored)]
        /\ UNCHANGED <<resetCode, resetStored, resetAltered, outsideReset>>

NextReset ==
    \/ HashResetCodeCall
    \/ StoredHashAltered
    \/ VerifyResetCodeCall

(***************************************************************************)
(* Code generation (packages/core/src/utils.ts): generateResetCode and     *)
(* generateSecureToken over the runtime's random sources.                  *)
(***************************************************************************)
\* The default lengths of the two generators.
DefaultResetCodeLength == 6
DefaultTokenLength == 32
\* crypto.getRandomValues fills at most this many bytes in one call and
\* throws a QuotaExceededError for a longer array.
GetRandomValuesQuota == 65536

UndefinedLength == 0 - 1

DigitChars == <<"0", "1", "2", "3", "4", "5", "6", "7", "8", "9">>
AlphanumericChars ==
    <<"A", "B", "C", "D", "E", "F", "G", "H", "I", "J", "K", "L", "M",
      "N", "O", "P", "Q", "R", "S", "T", "U", "V", "W", "X", "Y", "Z",
      "a", "b", "c", "d", "e", "f", "g", "h", "i", "j", "k", "l", "m",
      "n", "o", "p", "q", "r", "s", "t", "u", "v", "w", "x", "y", "z",
      "0", "1", "2", "3", "4", "5", "6", "7", "8", "9">>

\* chars.charAt(i): the character at the 0-based index, "" outside the string
charAt(chars, i) == IF i >= 0 /\ i < Len(chars) THEN chars[i + 1] ELSE ""

\* The runtime: whether a global crypto.getRandomValues exists, and whether
\* require('crypto').randomBytes does.
Platforms == [getRandomValues : BOOLEAN, randomBytes : BOOLEAN]

\* The bytes a random source may deliver for an array of the given length.
ByteSamples == {0, 9, 10, 61, 62, 255}
BytePatterns == {1, 7, 255}
RandomBytes(length) ==
    IF length <= MaxCodeLength THEN [1..length -> ByteSamples]
    ELSE {[i \in 1..length |-> (i * k) % 256] : k \in BytePatterns}

GenThrew(error) == [threw |-> TRUE, error |-> error, value |-> <<>>, source |-> "none"]
GenReturned(value, source) == [threw |-> FALSE, error |-> "none", value |-> value, source |-> source]

\* The byte is scaled to the alphabet instead of reduced modulo its length.
fromBytes_scaled(chars, randomValues, length) ==
    [i \in 1..length |-> charAt(chars, (randomValues[i] * Len(chars)) \div 256)]

\* for (i = 0; i < length; i++) code += chars.charAt(randomValues[i] % chars.length)
fromBytes(chars, randomValues, length) ==
    [i \in 1..length |-> charAt(chars, randomValues[i] % Len(chars))]

\* With no cryptographic source the bytes come from Math.random.
randomSource_mathRandom(length, platform) ==
    IF platform.getRandomValues
    THEN IF length > GetRandomValuesQuota THEN GenThrew("QuotaExceededError")
         ELSE GenReturned(<<>>, "crypto.getRandomValues")
    ELSE IF platform.randomBytes THEN GenReturned(<<>>, "crypto.randomBytes")
         ELSE GenReturned(<<>>, "Math.random")

\* The source of the bytes of a call, or the error of a call that has none.
randomSource(length, platform) ==
    IF platform.getRandomValues
    THEN IF length > GetRandomValuesQuota THEN GenThrew("QuotaExceededError")
         ELSE GenReturned(<<>>, "crypto.getRandomValues")
    ELSE IF platform.randomBytes THEN GenReturned(<<>>, "crypto.randomBytes")
         ELSE GenThrew("Cannot find module 'crypto'")

generate(chars, length, platform, bytes) ==
    LET src == randomSource(length, platform)
    IN  IF src.threw THEN src
        ELSE GenReturned(fromBytes(chars, bytes, length), src.source)

generateResetCode(lengthArg, platform, bytes) ==
    LET length == IF lengthArg = UndefinedLength THEN DefaultResetCodeLength ELSE lengthArg
    IN  generate(DigitChars, length, platform, bytes)

generateSecureToken(lengthArg, platform, bytes) ==
    LET length == IF lengthArg = UndefinedLength THEN DefaultTokenLength ELSE lengthArg
    IN  generate(AlphanumericChars, length, platform, bytes)

\* The length arguments of the calls: none, the short ones, and one above the
\* quota of crypto.getRandomValues.
LengthArgs == {UndefinedLength} \cup (1..MaxCodeLength) \cup {GetRandomValuesQuota + 1}

NoGenResult == [fn |-> "none", lengthArg |-> UndefinedLength,
                platform |-> [getRandomValues |-> FALSE, randomBytes |-> FALSE],
                out |-> GenThrew("none")]

InitGen == genResult = NoGenResult

GenerateResetCodeCall ==
    \E lengthArg \in LengthArgs, platform \in Platforms :
        \E bytes \in RandomBytes(IF lengthArg = UndefinedLength
                                 THEN DefaultResetCodeLength ELSE lengthArg) :
            /\ genResult = NoGenResult
            /\ genResult' = [fn |-> "generateResetCode", lengthArg |-> lengthArg,
                             platform |-> platform,
                             out |-> generateResetCode(lengthArg, platform, bytes)]
            /\ UNCHANGED outsideGen

GenerateSecureTokenCall ==
    \E lengthArg \in LengthArgs, platform \in Platforms :
        \E bytes \in RandomBytes(IF lengthArg = UndefinedLength
                                 THEN DefaultTokenLength ELSE lengthArg) :
            /\ genResult = NoGenResult
            /\ genResult' = [fn |-> "generateSecureToken", lengthArg |-> lengthArg,
                             platform |-> platform,
                             out |-> generateSecureToken(lengthArg, platform, bytes)]
            /\ UNCHANGED outsideGen

NextGen ==
    \/ GenerateResetCodeCall
    \/ GenerateSecureTokenCall

(***************************************************************************)
(* The password-reset flows: requestPasswordReset / resetPassword of the   *)
(* GraphQL resolvers and POST /reset-request, /reset-password of the       *)
(* Fastify plugin.  The data source and the mailer are the consumer's.     *)
(***************************************************************************)
\* A reset code lives Date.now() + 60 * 60 * 1000: one hour.
ResetLifetime == 1

\* The characters of a string, joined.
RECURSIVE join(_)
join(chars) == IF chars = <<>> THEN "" ELSE Head(chars) \o join(Tail(chars))

\* The codes generateResetCode() returns, and a code a client may make up.
GeneratedCodes == {<<"1", "2", "3", "4", "5", "6">>, <<"6", "5", "4", "3", "2", "1">>}
SubmittedCodes == GeneratedCodes \cup {<<"0", "0", "0", "0", "0", "0">>}

Emails == {"user@example.com", "nobody@example.com"}
NewPasswords == {"weak", "Str0ng!passphrase"}
NoUser == [id |-> "null", email |-> "null", passwordHash |-> "null"]
NoReset == [userId |-> "null", expiresAt |-> 0 - 1]

\* The consumer's AuthDataSource, as a table of users and one of resets.
getUserByEmail(D, email) ==
    IF \E u \in D.users : u.email = email
    THEN CHOOSE u \in D.users : u.email = email
    ELSE NoUser
createPasswordReset(D, userId, codeHash, expiresAt) ==
    [D EXCEPT !.resets = MapSet(@, codeHash, [userId |-> userId, expiresAt |-> expiresAt])]
getPasswordReset(D, codeHash) ==
    IF codeHash \in DOMAIN D.resets THEN D.resets[codeHash] ELSE NoReset
deletePasswordReset(D, codeHash) ==
    [D EXCEPT !.resets = MapDelete(@, codeHash)]
updateUser(D, userId, passwordHash) ==
    [D EXCEPT !.users = {IF u.id = userId THEN [u EXCEPT !.passwordHash = passwordHash] ELSE u
                          : u \in @}]

\* calculatePasswordStrength(password).score and hashPassword(password)
passwordScore(password) == IF password = "weak" THEN 0 ELSE 4
hashPassword(password) == "bcrypt:" \o password

\* What a request did: the data-source calls it made, the e-mails it handed
\* to the mailer, and what its caller observes.
Call(op, arg) == [op |-> op, arg |-> arg]
Mail(to, code) == [to |-> to, code |-> code]
Returned(status) == [ok |-> TRUE, status |-> status, error |-> "none"]
Failed(status, error) == [ok |-> FALSE, status |-> status, error |-> error]
Done(D, out, calls, mails) == [D |-> D, out |-> out, calls |-> calls, mails |-> mails]

\* The raw code is what reaches the data source.
requestPasswordReset_rawCode(D, email, code, sendFails, t) ==
    LET user == getUserByEmail(D, email)
    IN  IF user = NoUser THEN Done(D, Returned(0), <<>>, <<>>)
        ELSE Done(createPasswordReset(D, user.id, code, t + ResetLifetime),
                  IF sendFails THEN Failed(0, "send failed") ELSE Returned(0),
                  <<Call("createPasswordReset", code)>>,
                  <<Mail(user.email, code)>>)

\* The GraphQL mutation requestPasswordReset; a throw of the mailer
\* propagates to the caller.
requestPasswordReset(D, email, code, sendFails, t) ==
    LET user == getUserByEmail(D, email)
        codeHash == hashResetCode(join(code))
    IN  IF user = NoUser THEN Done(D, Returned(0), <<>>, <<>>)
        ELSE Done(createPasswordReset(D, user.id, codeHash, t + ResetLifetime),
                  IF sendFails THEN Failed(0, "send failed") ELSE Returned(0),
                  <<Call("createPasswordReset", codeHash)>>,
                  <<Mail(user.email, code)>>)

\* The expiry check is left out.
redeem_noExpiryCheck(D, code, newPassword, t, status) ==
    LET codeHash == hashResetCode(join(code))
        reset == getPasswordReset(D, codeHash)
        lookup == <<Call("getPasswordReset", codeHash)>>
    IN  IF reset = NoReset
        THEN Done(D, Failed(status, "Invalid or expired reset code"), lookup, <<>>)
        ELSE IF passwordScore(newPassword) < 2
        THEN Done(D, Failed(status, "Password too weak"), lookup, <<>>)
        ELSE Done(deletePasswordReset(updateUser(D, reset.userId, hashPassword(newPassword)), codeHash),
                  Returned(IF status = 0 THEN 0 ELSE 200),
                  lookup \o <<Call("updateUser", <<reset.userId>>),
                              Call("deletePasswordReset", codeHash)>>, <<>>)

\* A successful reset clears every reset record, not only the redeemed one.
redeem_deletesAllCodes(D, code, newPassword, t, status) ==
    LET codeHash == hashResetCode(join(code))
        reset == getPasswordReset(D, codeHash)
        lookup == <<Call("getPasswordReset", codeHash)>>
    IN  IF reset = NoReset
        THEN Done(D, Failed(status, "Invalid or expired reset code"), lookup, <<>>)
        ELSE IF t > reset.expiresAt
        THEN Done(deletePasswordReset(D, codeHash), Failed(status, "Reset code has expired"),
                  lookup \o <<Call("deletePasswordReset", codeHash)>>, <<>>)
        ELSE IF passwordScore(newPassword) < 2
        THEN Done(D, Failed(status, "Password too weak"), lookup, <<>>)
        ELSE Done([updateUser(D, reset.userId, hashPassword(newPassword))
                      EXCEPT !.resets = EmptyMap],
                  Returned(IF status = 0 THEN 0 ELSE 200),
                  lookup \o <<Call("updateUser", <<reset.userId>>),
                              Call("deletePasswordReset", codeHash)>>, <<>>)

\* The body the GraphQL mutation resetPassword and the Fastify route
\* /reset-password share; status is 0 for the mutation (it throws) and 400
\* for the route (it replies).
redeem(D, code, newPassword, t, status) ==
    LET codeHash == hashResetCode(join(code))
        reset == getPasswordReset(D, codeHash)
        lookup == <<Call("getPasswordReset", codeHash)>>
    IN  IF reset = NoReset
        THEN Done(D, Failed(status, "Invalid or expired reset code"), lookup, <<>>)
        ELSE IF t > reset.expiresAt
        THEN Done(deletePasswordReset(D, codeHash), Failed(status, "Reset code has expired"),
                  lookup \o <<Call("deletePasswordReset", codeHash)>>, <<>>)
        ELSE IF passwordScore(newPassword) < 2
        THEN Done(D, Failed(status, "Password too weak"), lookup, <<>>)
        ELSE Done(deletePasswordReset(updateUser(D, reset.userId, hashPassword(newPassword)), codeHash),
                  Returned(IF status = 0 THEN 0 ELSE 200),
                  lookup \o <<Call("updateUser", <<reset.userId>>),
                              Call("deletePasswordReset", codeHash)>>, <<>>)

resetPassword(D, code, newPassword, t) == redeem(D, code, newPassword, t, 0)

\* POST /reset-request: the onResetAttempt hook, if given, may reject with
\* 429; a throw of the mailer is swallowed.
HookBehaviours == {"absent", "passes", "throws"}
fastifyResetRequest(D, email, code, sendFails, hook, t) ==
    LET user == getUserByEmail(D, email)
        codeHash == hashResetCode(join(code))
    IN  IF hook = "throws" THEN Done(D, Failed(429, "Too many reset attempts"), <<>>, <<>>)
        ELSE IF user # NoUser
        THEN Done(createPasswordReset(D, user.id, codeHash, t + ResetLifetime),
                  Returned(200),
                  <<Call("createPasswordReset", codeHash)>>,
                  <<Mail(user.email, code)>>)
        ELSE Done(D, Returned(200), <<>>, <<>>)

fastifyResetPassword(D, code, newPassword, t) == redeem(D, code, newPassword, t, 400)

NoFlowResult ==
    [api |-> "none", op |-> "none", email |-> "none", code |-> <<>>, at |-> 0,
     sendFails |-> FALSE, hook |-> "absent", before |-> [users |-> {}, resets |-> EmptyMap],
     out |-> Returned(0), calls |-> <<>>, mails |-> <<>>]
FlowResult(api, op, email, code, sendFails, hook, r) ==
    [api |-> api, op |-> op, email |-> email, code |-> code, at |-> flowNow,
     sendFails |-> sendFails, hook |-> hook, before |-> dataSource,
     out |-> r.out, calls |-> r.calls, mails |-> r.mails]

InitFlow ==
    /\ flowNow = 0
    /\ dataSource = [users |-> {[id |-> "u1", email |-> "user@example.com",
                                 passwordHash |-> "bcrypt:old"]},
                     resets |-> EmptyMap]
    /\ flowResult = NoFlowResult

FlowTick ==
    /\ flowNow < MaxFlowTime
    /\ flowNow' = flowNow + 1
    /\ flowResult' = NoFlowResult
    /\ UNCHANGED <<dataSource, outsideFlow>>

RequestPasswordResetCall ==
    \E email \in Emails, code \in GeneratedCodes, sendFails \in BOOLEAN :
        LET r == requestPasswordReset(dataSource, email, code, sendFails, flowNow)
        IN  /\ dataSource' = r.D
            /\ flowResult' = FlowResult("graphql", "request", email, code, sendFails, "absent", r)
            /\ UNCHANGED <<flowNow, outsideFlow>>

ResetPasswordCall ==
    \E code \in SubmittedCodes, newPassword \in NewPasswords :
        LET r == resetPassword(dataSource, code, newPassword, flowNow)
        IN  /\ dataSource' = r.D
            /\ flowResult' = FlowResult("graphql", "reset", "none", code, FALSE, "absent", r)
            /\ UNCHANGED <<flowNow, outsideFlow>>

FastifyResetRequestCall ==
    \E email \in Emails, code \in GeneratedCodes, sendFails \in BOOLEAN,
       hook \in HookBehaviours :
        LET r == fastifyResetRequest(dataSource, email, code, sendFails, hook, flowNow)
        IN  /\ dataSource' = r.D
            /\ flowResult' = FlowResult("fastify", "request", email, code, sendFails, hook, r)
            /\ UNCHANGED <<flowNow, outsideFlow>>

FastifyResetPasswordCall ==
    \E code \in SubmittedCodes, newPassword \in NewPasswords :
        LET r == fastifyResetPassword(dataSource, code, newPassword, flowNow)
        IN  /\ dataSource' = r.D
            /\ flowResult' = FlowResult("fastify", "reset", "none", code, FALSE, "absent", r)
            /\ UNCHANGED <<flowNow, outsideFlow>>

NextFlow ==
    \/ FlowTick
    \/ RequestPasswordResetCall
    \/ ResetPasswordCall
    \/ FastifyResetRequestCall
    \/ FastifyResetPasswordCall

(***************************************************************************)
(* Store objects and instances.  Each PasskeyService works on              *)
(* this.config.challengeStore; the module-level functions of challenges.ts *)
(* work on defaultStore.  The verifier of a verify call answers at once    *)
(* here: what matters is which store object a call reads and writes.       *)
(***************************************************************************)
Instances == {"a", "b", "c"}
\* a and b are configured without a store; c gets the application's store.
InstanceConfig(i) ==
    [challengeTTL |-> ChallengeTTL,
     challengeStore |-> IF i = "c" THEN "injected" ELSE NoStore]
StoreIds == {"defaultStore", "injected"} \cup {i \o ".challengeStore" : i \in Instances \ {"c"}}
Callers == Instances \cup {"module", "application"}

NoInstCall == [by |-> "none", op |-> "none", challenge |-> "none", found |-> FALSE,
               before |-> [id \in StoreIds |-> NewStore]]
InstCall(by, op, challenge, found) ==
    [by |-> by, op |-> op, challenge |-> challenge, found |-> found, before |-> heap]

InitInst ==
    /\ heap = [id \in StoreIds |-> NewStore]
    /\ services = [i \in Instances |-> PasskeyService(InstanceConfig(i), i)]
    /\ instLast = NoInstCall
    /\ issuedBy = [X \in ChallengeStrings |-> {}]

\* The store object a caller's calls go to.
storeOf(by) ==
    IF by \in Instances THEN services[by].challengeStore
    ELSE IF by = "module" THEN "defaultStore" ELSE "injected"

\* The number of store() calls made so far, over all store objects.
RECURSIVE storesMade(_)
storesMade(ids) ==
    IF ids = {} THEN 0
    ELSE LET id == CHOOSE x \in ids : TRUE
         IN  (heap[id].nextTimer - 1) + storesMade(ids \ {id})

\* What store / get / delete on the caller's store object do to the heap.
storeIn(H, by, X, userId, ttl) == [H EXCEPT ![storeOf(by)] = store(@, X, userId, ttl, 0)]
lookUpIn(H, by, X) == get(H[storeOf(by)], X, 0)
deleteIn(H, by, X) == [H EXCEPT ![storeOf(by)] = delete(@, X)]

\* generateRegistrationOptions / generateAuthenticationOptions of an instance
InstanceGenerates ==
    \E i \in Instances, X \in ChallengeStrings,
       op \in {"generateRegistrationOptions", "generateAuthenticationOptions"} :
        /\ storesMade(StoreIds) < MaxIssued
        /\ heap' = storeIn(heap, i, X,
                           IF op = "generateRegistrationOptions" THEN "u1" ELSE "undefined",
                           services[i].challengeTTL)
        /\ issuedBy' = [issuedBy EXCEPT ![X] = @ \cup {i}]
        /\ instLast' = InstCall(i, op, X, TRUE)
        /\ UNCHANGED <<services, outsideInst>>

\* verifyRegistration / verifyAuthentication of an instance: the challenge
\* is looked up in the instance's store and deleted after the verifier's answer.
InstanceVerifies ==
    \E i \in Instances, X \in ChallengeStrings,
       op \in {"verifyRegistration", "verifyAuthentication"} :
        LET r == lookUpIn(heap, i, X)
        IN  /\ heap' = [heap EXCEPT ![storeOf(i)] =
                           IF r.ret # Null THEN delete(r.S, X) ELSE r.S]
            /\ instLast' = InstCall(i, op, X, r.ret # Null)
            /\ UNCHANGED <<services, issuedBy, outsideInst>>

InstanceClearsExpired ==
    \E i \in Instances :
        /\ heap' = [heap EXCEPT ![storeOf(i)] = clearExpired(@, 0)]
        /\ instLast' = InstCall(i, "clearExpiredChallenges", "none", FALSE)
        /\ UNCHANGED <<services, issuedBy, outsideInst>>

\* storeChallenge / getChallenge / deleteChallenge / clearExpiredChallenges
storeChallenge ==
    \E X \in ChallengeStrings, ttl \in TTLs :
        /\ storesMade(StoreIds) < MaxIssued
        /\ heap' = storeIn(heap, "module", X, "u1", ttl)
        /\ issuedBy' = [issuedBy EXCEPT ![X] = @ \cup {"module"}]
        /\ instLast' = InstCall("module", "storeChallenge", X, TRUE)
        /\ UNCHANGED <<services, outsideInst>>

getChallenge ==
    \E X \in ChallengeStrings :
        LET r == lookUpIn(heap, "module", X)
        IN  /\ heap' = [heap EXCEPT !["defaultStore"] = r.S]
            /\ instLast' = InstCall("module", "getChallenge", X, r.ret # Null)
            /\ UNCHANGED <<services, issuedBy, outsideInst>>

deleteChallenge ==
    \E X \in ChallengeStrings :
        /\ heap' = deleteIn(heap, "module", X)
        /\ instLast' = InstCall("module", "deleteChallenge", X, FALSE)
        /\ UNCHANGED <<services, issuedBy, outsideInst>>

clearExpiredChallenges ==
    /\ heap' = [heap EXCEPT !["defaultStore"] = clearExpired(@, 0)]
    /\ instLast' = InstCall("module", "clearExpiredChallenges", "none", FALSE)
    /\ UNCHANGED <<services, issuedBy, outsideInst>>

\* The application uses the store it injected.
ApplicationStores ==
    \E X \in ChallengeStrings :
        /\ storesMade(StoreIds) < MaxIssued
        /\ heap' = storeIn(heap, "application", X, "u1", ChallengeTTL)
        /\ issuedBy' = [issuedBy EXCEPT ![X] = @ \cup {"application"}]
        /\ instLast' = InstCall("application", "store", X, TRUE)
        /\ UNCHANGED <<services, outsideInst>>

ApplicationGets ==
    \E X \in ChallengeStrings :
        LET r == lookUpIn(heap, "application", X)
        IN  /\ heap' = [heap EXCEPT !["injected"] = r.S]
            /\ instLast' = InstCall("application", "get", X, r.ret # Null)
            /\ UNCHANGED <<services, issuedBy, outsideInst>>

NextInst ==
    \/ InstanceGenerates
    \/ InstanceVerifies
    \/ InstanceClearsExpired
    \/ storeChallenge
    \/ getChallenge
    \/ deleteChallenge
    \/ clearExpiredChallenges
    \/ ApplicationStores
    \/ ApplicationGets

(***************************************************************************)
(* One character of a code or token, for each value a Uint8Array element   *)
(* can take.                                                               *)
(***************************************************************************)
Bytes == 0..255
\* The runtimes that have a random source.
SourcedPlatforms == {p \in Platforms : p.getRandomValues \/ p.randomBytes}

NoByteResult == [fn |-> "none", byte |-> 0, out |-> GenThrew("none")]

InitBias == byteResult = NoByteResult

ResetCodeOfByte ==
    \E b \in Bytes, platform \in SourcedPlatforms :
        /\ byteResult' = [fn |-> "generateResetCode", byte |-> b,
                          out |-> generateResetCode(1, platform, <<b>>)]
        /\ UNCHANGED outsideBias

SecureTokenOfByte ==
    \E b \in Bytes, platform \in SourcedPlatforms :
        /\ byteResult' = [fn |-> "generateSecureToken", byte |-> b,
                          out |-> generateSecureToken(1, platform, <<b>>)]
        /\ UNCHANGED outsideBias

NextBias ==
    \/ ResetCodeOfByte
    \/ SecureTokenOfByte

(***************************************************************************)
(* The Fastify plugin's onRequest hook.                                    *)
(*   request.headers.cookie         absent, or a cookie string: what the   *)
(*                                  regular expression for the session     *)
(*                                  cookie captures from it, if anything   *)
(*   request.headers.authorization  absent, or a scheme and the rest       *)
(* A captured cookie value is URI-encoded: decodeURIComponent gives the    *)
(* token back, and throws a URIError on a malformed escape such as '%'.    *)
(***************************************************************************)
\* The plugin's ShieldForge instance, and the time of the requests.
hookShieldForge ==
    ShieldForge([jwtSecret |-> "s1", jwtExpiresIn |-> NoExp,
                 jwtIssuer |-> Absent, jwtAudience |-> Absent])
HookNow == 1
\* The users the data source holds: u2 has been deleted.
StoredUsers ==
    {[id |-> "u1", email |-> "a@b.com", passwordHash |-> "hash-1", name |-> "Ann"]}
NullUser == [id |-> "null"]

\* dataSource.getUserById(id): the user, null when there is none; the data
\* source may also fail.
getUserById(id) ==
    IF \E u \in StoredUsers : u.id = id
    THEN CHOOSE u \in StoredUsers : u.id = id
    ELSE NullUser

\* The record without its passwordHash.
sanitizeUser(user) == [k \in DOMAIN user \ {"passwordHash"} |-> user[k]]

\* Tokens a request may carry: of a user, of a deleted user, expired, signed
\* with another secret, and no token at all.
RequestTokens ==
    {ShieldForge_generateToken(hookShieldForge, p, 0) : p \in Payloads} \cup
    {generateToken([userId |-> "u1", email |-> "a@b.com"], "s1", 1,
                   [issuer |-> Absent, audience |-> Absent], 0),
     generateToken([userId |-> "u1", email |-> "a@b.com"], "s2", SevenDays,
                   [issuer |-> Absent, audience |-> Absent], 0),
     Garbage}

encodeURIComponent(token) == [malformed |-> FALSE, encoded |-> token]
MalformedEscape == [malformed |-> TRUE, encoded |-> NoToken]
decodeURIComponent(str) ==
    IF str.malformed THEN [threw |-> TRUE, value |-> NoToken]
    ELSE [threw |-> FALSE, value |-> str.encoded]

\* The Cookie header: whether there is one, whether the regular expression
\* for the session cookie matches in it, and match[1].
NoCookie == [present |-> FALSE, match |-> FALSE, value |-> encodeURIComponent(NoToken)]
OtherCookies == [present |-> TRUE, match |-> FALSE, value |-> encodeURIComponent(NoToken)]
SessionCookie(value) == [present |-> TRUE, match |-> TRUE, value |-> value]
CookieHeaders ==
    {NoCookie, OtherCookies, SessionCookie(MalformedEscape)} \cup
    {SessionCookie(encodeURIComponent(tk)) : tk \in RequestTokens}
\* The Authorization header: its first seven characters and the rest.
NoAuthorization == [scheme |-> Absent, rest |-> NoToken]
AuthorizationHeaders ==
    {NoAuthorization} \cup [scheme : {"Bearer ", "Basic "}, rest : RequestTokens \cup {NoToken}]

HookDone(user) == [threw |-> FALSE, error |-> "none", user |-> user]
HookThrew(error) == [threw |-> TRUE, error |-> error, user |-> NullUser]

\* if (token) { try { verifyToken; getUserById; sanitizeUser } catch {} }
userOfToken(token, dbFails) ==
    LET v == ShieldForge_verifyToken(hookShieldForge, token, HookNow)
    IN  IF ~v.ok \/ dbFails THEN NullUser
        ELSE IF getUserById(v.payload.userId) = NullUser THEN NullUser
        ELSE sanitizeUser(getUserById(v.payload.userId))

onRequest(cookie, authorization, dbFails) ==
    LET decoded == IF cookie.present /\ cookie.match THEN decodeURIComponent(cookie.value)
                   ELSE [threw |-> FALSE, value |-> NoToken]
        bearer == IF authorization.scheme = "Bearer " THEN authorization.rest ELSE NoToken
        token == IF decoded.value # NoToken THEN decoded.value ELSE bearer
    IN  IF decoded.threw THEN HookThrew("URIError: URI malformed")
        ELSE IF token = NoToken THEN HookDone(NullUser)
        ELSE HookDone(userOfToken(token, dbFails))

NoRequest == [cookie |-> NoCookie, authorization |-> NoAuthorization, dbFails |-> FALSE,
              handled |-> FALSE, out |-> HookDone(NullUser)]

InitHook == request = NoRequest

OnRequest ==
    \E cookie \in CookieHeaders, authorization \in AuthorizationHeaders, dbFails \in BOOLEAN :
        /\ request' = [cookie |-> cookie, authorization |-> authorization,
                       dbFails |-> dbFails, handled |-> TRUE,
                       out |-> onRequest(cookie, authorization, dbFails)]
        /\ UNCHANGED outsideHook

NextHook == OnRequest

(***************************************************************************)
(* Concurrent redemptions.  resetPassword (and POST /reset-password) runs  *)
(* between awaits: getPasswordReset; then, for an expired record,          *)
(* deletePasswordReset; otherwise hashPassword, updateUser and             *)
(* deletePasswordReset.  Other calls run between any two of its awaits.    *)
(***************************************************************************)
Racers == 1..NumRacers
RaceCode == <<"1", "2", "3", "4", "5", "6">>
RacePasswords == NewPasswords \cup {"0ther!passphrase"}
RaceApis == {"graphql", "fastify"}

Idle == [pc |-> "idle", api |-> "none", newPassword |-> "none", reset |-> NoReset,
         out |-> Returned(0)]

\* One requestPasswordReset for the user has been answered: the record of
\* RaceCode is in the data source.
InitRace ==
    /\ raceNow = 0
    /\ raceSource =
          createPasswordReset([users |-> {[id |-> "u1", email |-> "user@example.com",
                                           passwordHash |-> "bcrypt:old"]},
                               resets |-> EmptyMap],
                              "u1", hashResetCode(join(RaceCode)), 0 + ResetLifetime)
    /\ racers = [p \in Racers |-> Idle]

RaceTick ==
    /\ raceNow < MaxRaceTime
    /\ raceNow' = raceNow + 1
    /\ UNCHANGED <<raceSource, racers, outsideRace>>

\* The call up to the await after getPasswordReset: the lookup, the expiry
\* check and the strength check.
RaceLookup ==
    \E p \in Racers, api \in RaceApis, newPassword \in RacePasswords :
        LET reset == getPasswordReset(raceSource, hashResetCode(join(RaceCode)))
            status == IF api = "graphql" THEN 0 ELSE 400
            me == [Idle EXCEPT !.api = api, !.newPassword = newPassword, !.reset = reset]
        IN  /\ racers[p].pc = "idle"
            /\ racers' = [racers EXCEPT ![p] =
                  IF reset = NoReset
                  THEN [me EXCEPT !.pc = "done",
                                  !.out = Failed(status, "Invalid or expired reset code")]
                  ELSE IF raceNow > reset.expiresAt
                  THEN [me EXCEPT !.pc = "expired"]
                  ELSE IF passwordScore(newPassword) < 2
                  THEN [me EXCEPT !.pc = "done", !.out = Failed(status, "Password too weak")]
                  ELSE [me EXCEPT !.pc = "found"]]
            /\ UNCHANGED <<raceNow, raceSource, outsideRace>>

\* await dataSource.deletePasswordReset(codeHash) of an expired record
RaceDeleteExpired ==
    \E p \in Racers :
        /\ racers[p].pc = "expired"
        /\ raceSource' = deletePasswordReset(raceSource, hashResetCode(join(RaceCode)))
        /\ racers' = [racers EXCEPT ![p].pc = "done",
                         ![p].out = Failed(IF racers[p].api = "graphql" THEN 0 ELSE 400,
                                           "Reset code has expired")]
        /\ UNCHANGED <<raceNow, outsideRace>>

\* await hashPassword(newPassword); await dataSource.updateUser(...)
RaceUpdateUser ==
    \E p \in Racers :
        /\ racers[p].pc = "found"
        /\ raceSource' = updateUser(raceSource, racers[p].reset.userId,
                                    hashPassword(racers[p].newPassword))
        /\ racers' = [racers EXCEPT ![p].pc = "updated"]
        /\ UNCHANGED <<raceNow, outsideRace>>

\* await dataSource.deletePasswordReset(codeHash); the call succeeds
RaceDeleteRedeemed ==
    \E p \in Racers :
        /\ racers[p].pc = "updated"
        /\ raceSource' = deletePasswordReset(raceSource, hashResetCode(join(RaceCode)))
        /\ racers' = [racers EXCEPT ![p].pc = "done",
                         ![p].out = Returned(IF racers[p].api = "graphql" THEN 0 ELSE 200)]
        /\ UNCHANGED <<raceNow, outsideRace>>

NextRace ==
    \/ RaceTick
    \/ RaceLookup
    \/ RaceDeleteExpired
    \/ RaceUpdateUser
    \/ RaceDeleteRedeemed

(***************************************************************************)
(* The React AuthProvider.  Every handler runs to its next await and React *)
(* renders the state it has set; a refreshAuth call awaits                 *)
(* refreshAuthProp() and goes on when that settles.  The timestamp of the  *)
(* cross-tab event is left out of the stored event.                        *)
(***************************************************************************)
NullToken == "<null>"
NullAuthUser == "<null>"
NoItem == "<no item>"
\* The strings login may be given as a token, and the users.
AuthTokens == {"", "jwt-1", "jwt-2"}
AuthUsers == {"ann", "bob"}
JSON_stringify(user) == "json:" \o user
JSON_parse(str) ==
    IF \E u \in AuthUsers : JSON_stringify(u) = str
    THEN [threw |-> FALSE, value |-> CHOOSE u \in AuthUsers : JSON_stringify(u) = str]
    ELSE [threw |-> TRUE, value |-> NullAuthUser]

\* config.mode, config.enableCrossTabSync and the refreshAuth prop
ProviderProps == [mode : {"token", "cookie"}, enableCrossTabSync : BOOLEAN,
                  refreshAuthProp : BOOLEAN]
\* What localStorage holds when the provider mounts.
StoredSessions ==
    {[token |-> NoItem, user |-> NoItem, event |-> NoItem],
     [token |-> "jwt-1", user |-> JSON_stringify("ann"), event |-> NoItem],
     [token |-> "jwt-1", user |-> "{", event |-> NoItem]}

\* What refreshAuthProp() settles with: a session, null, or a rejection.
NoSession == [kind |-> "null", token |-> NullToken, user |-> NullAuthUser]
Rejection == [kind |-> "rejected", token |-> NullToken, user |-> NullAuthUser]
Sessions == [kind : {"session"}, token : AuthTokens, user : AuthUsers]
Settlements == Sessions \cup {NoSession, Rejection}

\* isAuthenticated: isCookieMode ? !!user : !!token && !!user
isAuthenticated(props, A) ==
    IF props.mode = "cookie" THEN A.user # NullAuthUser
    ELSE A.token # NullToken /\ A.token # "" /\ A.user # NullAuthUser

\* login and logout answer the React state and the storage they leave.
Rendered(A, L) == [auth |-> A, localStorage |-> L]

\* logout leaves the storage keys in place.
logout_keepsStorage(props, A, L) ==
    Rendered([A EXCEPT !.token = NullToken, !.user = NullAuthUser], L)

login(props, A, L, newToken, newUser) ==
    Rendered([A EXCEPT !.token = newToken, !.user = newUser],
             IF props.mode = "cookie" THEN L
             ELSE [token |-> newToken, user |-> JSON_stringify(newUser),
                   event |-> IF props.enableCrossTabSync THEN "login" ELSE L.event])

logout(props, A, L) ==
    Rendered([A EXCEPT !.token = NullToken, !.user = NullAuthUser],
             IF props.mode = "cookie" THEN L
             ELSE [token |-> NoItem, user |-> NoItem,
                   event |-> IF props.enableCrossTabSync THEN "logout" ELSE L.event])

\* A settled refreshAuth call that a logout() overtook does nothing more.
refreshSettled_cancelledByLogout(props, A, L, result, loggedOut) ==
    LET r == IF loggedOut THEN Rendered(A, L)
             ELSE IF result.kind = "session" THEN login(props, A, L, result.token, result.user)
             ELSE logout(props, A, L)
    IN  Rendered([r.auth EXCEPT !.isLoading = FALSE], r.localStorage)

\* refreshAuth after its await: login(result) or logout(), then
\* setIsLoading(false).
refreshSettled(props, A, L, result, loggedOut) ==
    LET r == IF result.kind = "session" THEN login(props, A, L, result.token, result.user)
             ELSE logout(props, A, L)
    IN  Rendered([r.auth EXCEPT !.isLoading = FALSE], r.localStorage)

RefreshIds == 1..NumRefreshes
NotAwaiting == [awaiting |-> FALSE, loggedOut |-> FALSE]
NoAuthCall == [op |-> "none", token |-> NullToken, user |-> NullAuthUser,
               result |-> NoSession, loggedOut |-> FALSE]
AuthCall(op, token, user, result, loggedOut) ==
    [op |-> op, token |-> token, user |-> user, result |-> result, loggedOut |-> loggedOut]

\* A provider with the given props over the given storage, before its
\* mount effect.
InitProviderWith(props, stored) ==
    /\ provider = [props |-> props, mounted |-> FALSE, hydrating |-> FALSE]
    /\ auth = [token |-> NullToken, user |-> NullAuthUser, isLoading |-> TRUE]
    /\ localStorage = stored
    /\ refreshes = [i \in RefreshIds |-> NotAwaiting]
    /\ authLast = NoAuthCall

\* mode = 'token', enableCrossTabSync = true, no refreshAuth prop
InitAuth ==
    InitProviderWith([mode |-> "token", enableCrossTabSync |-> TRUE, refreshAuthProp |-> FALSE],
                     [token |-> NoItem, user |-> NoItem, event |-> NoItem])

\* The mount effect: token mode reads localStorage; cookie mode asks the
\* server through refreshAuthProp, if there is one.
Mount ==
    /\ ~provider.mounted
    /\ IF provider.props.mode = "cookie"
       THEN /\ provider' = [provider EXCEPT !.mounted = TRUE,
                                            !.hydrating = provider.props.refreshAuthProp]
            /\ auth' = [auth EXCEPT !.isLoading = provider.props.refreshAuthProp]
       ELSE /\ provider' = [provider EXCEPT !.mounted = TRUE]
            /\ auth' = [token |-> IF localStorage.token \notin {NoItem, ""}
                                  THEN localStorage.token ELSE auth.token,
                        user |-> IF localStorage.user \notin {NoItem, ""}
                                    /\ ~JSON_parse(localStorage.user).threw
                                 THEN JSON_parse(localStorage.user).value ELSE auth.user,
                        isLoading |-> FALSE]
    /\ authLast' = NoAuthCall
    /\ UNCHANGED <<localStorage, refreshes, outsideAuth>>

\* The refreshAuthProp() call of the mount effect settles.
HydrationSettles ==
    \E result \in Settlements :
        /\ provider.hydrating
        /\ provider' = [provider EXCEPT !.hydrating = FALSE]
        /\ auth' = IF result.kind = "session"
                   THEN [token |-> result.token, user |-> result.user, isLoading |-> FALSE]
                   ELSE [auth EXCEPT !.isLoading = FALSE]
        /\ authLast' = NoAuthCall
        /\ UNCHANGED <<localStorage, refreshes, outsideAuth>>

Login ==
    \E newToken \in AuthTokens, newUser \in AuthUsers :
        LET r == login(provider.props, auth, localStorage, newToken, newUser)
        IN  /\ provider.mounted
            /\ auth' = r.auth
            /\ localStorage' = r.localStorage
            /\ authLast' = AuthCall("login", newToken, newUser, NoSession, FALSE)
            /\ UNCHANGED <<provider, refreshes, outsideAuth>>

\* logout() cancels nothing: the refreshAuth calls in flight stay in flight.
Logout ==
    LET r == logout(provider.props, auth, localStorage)
    IN  /\ provider.mounted
        /\ auth' = r.auth
        /\ localStorage' = r.localStorage
        /\ refreshes' = [i \in RefreshIds |->
                            IF refreshes[i].awaiting THEN [refreshes[i] EXCEPT !.loggedOut = TRUE]
                            ELSE refreshes[i]]
        /\ authLast' = AuthCall("logout", NullToken, NullAuthUser, NoSession, FALSE)
        /\ UNCHANGED <<provider, outsideAuth>>

\* refreshAuth(), called by the application or by the polling interval, up
\* to its await.
RefreshAuth ==
    \E i \in RefreshIds :
        /\ provider.mounted
        /\ provider.props.refreshAuthProp
        /\ ~refreshes[i].awaiting
        /\ refreshes' = [refreshes EXCEPT ![i] = [awaiting |-> TRUE, loggedOut |-> FALSE]]
        /\ auth' = [auth EXCEPT !.isLoading = TRUE]
        /\ authLast' = NoAuthCall
        /\ UNCHANGED <<provider, localStorage, outsideAuth>>

RefreshSettles ==
    \E i \in RefreshIds, result \in Settlements :
        LET r == refreshSettled(provider.props, auth, localStorage, result,
                                refreshes[i].loggedOut)
        IN  /\ refreshes[i].awaiting
            /\ auth' = r.auth
            /\ localStorage' = r.localStorage
            /\ refreshes' = [refreshes EXCEPT ![i] = NotAwaiting]
            /\ authLast' = AuthCall("refreshAuth", result.token, result.user, result,
                                    refreshes[i].loggedOut)
            /\ UNCHANGED <<provider, outsideAuth>>

NextAuth ==
    \/ Mount
    \/ HydrationSettles
    \/ Login
    \/ Logout
    \/ RefreshAuth
    \/ RefreshSettles

(***************************************************************************)
(* The specifications.  Each runs one part of the library; the state of    *)
(* the other parts stays as constructed.                                   *)
(***************************************************************************)
Init == InitPasskey /\ InitJwt /\ InitReset /\ InitGen /\ InitFlow /\ InitInst /\ InitBias /\ InitHook /\ InitRace /\ InitAuth
Next == NextPasskey
Spec == Init /\ [][Next]_vars

\* SpecStore: the InMemoryChallengeStore alone, under store / get / delete /
\* clearExpired calls, the clock and the timer firings.
NextStore ==
    \/ Observe
    \/ Tick
    \/ TimerFires
    \/ StoreCall
    \/ GetCall
    \/ DeleteCall
    \/ ClearExpiredCall

SpecStore == Init /\ [][NextStore]_vars

\* SpecService: a PasskeyService of any configuration, used through its own
\* methods only.
InitService ==
    /\ \E cfg \in PasskeyConfigs : InitServiceWith(cfg)
    /\ InitJwt /\ InitReset /\ InitGen /\ InitFlow /\ InitInst /\ InitBias /\ InitHook /\ InitRace /\ InitAuth
NextService ==
    \/ Observe
    \/ Tick
    \/ TimerFires
    \/ generateRegistrationOptions
    \/ generateAuthenticationOptions
    \/ verifyRegistration
    \/ verifyAuthentication
    \/ verifierResolves
    \/ verifierRejects
SpecService == InitService /\ [][NextService]_vars

\* SpecStoreLive: the same, with a caller that takes each answer and a
\* runtime that gets to every timeout that is due.
SpecStoreLive == SpecStore /\ WF_vars(Observe) /\ SF_vars(TimerFires)

SpecJwt == Init /\ [][NextJwt]_vars

SpecReset == Init /\ [][NextReset]_vars

SpecGen == Init /\ [][NextGen]_vars

SpecFlow == Init /\ [][NextFlow]_vars

SpecInstances == Init /\ [][NextInst]_vars

SpecBytes == Init /\ [][NextBias]_vars

SpecHook == Init /\ [][NextHook]_vars

SpecRace == Init /\ [][NextRace]_vars

\* SpecAuth: a provider of any props, over any of the stored sessions.
InitProvider ==
    /\ \E props \in ProviderProps, stored \in StoredSessions : InitProviderWith(props, stored)
    /\ InitPasskey /\ InitJwt /\ InitReset /\ InitGen /\ InitFlow /\ InitInst /\ InitBias
    /\ InitHook /\ InitRace
SpecAuth == InitProvider /\ [][NextAuth]_vars

(***************************************************************************)
(* Claims.                                                                 *)
(***************************************************************************)
\* A verify call has just made its challenge check.
CheckedChallenge ==
    lastVerify.outcome \in {"verifying", "Challenge not found or expired"}

\* A get() has just been made directly on the store.
GotChallenge == lastGet.challenge # "none"

\* C1: of the concurrent verifyRegistration / verifyAuthentication calls
\* that present the same stored challenge, at most one passes the challenge
\* check and obtains a verification result.
C1_AtMostOneResultPerChallenge ==
    \A i \in 1..MaxTimers : hist.results[i] <= 1

\* C2: once a verify call with challenge X has returned a verification
\* result, every later verify call with X (X not stored again in between)
\* throws 'Challenge not found or expired'; and on the store, a get(X) that
\* follows a delete(X) with no store(X) in between returns null.
C2_SequentialOneTimeUse ==
    /\ (CheckedChallenge /\ lastVerify.before.consumed)
          => /\ lastVerify.outcome = "Challenge not found or expired"
             /\ ~lastVerify.verifierInvoked
    /\ (GotChallenge /\ lastGet.before.deleted) => lastGet.ret = Null

\* C2 witness: a verify call presents a challenge that an earlier call
\* consumed.
C2_Witness ==
    /\ CheckedChallenge
    /\ lastVerify.before.consumed
    /\ lastVerify.before.issue # 0

\* C3: a verify call whose expectedChallenge was never stored, has expired
\* or was already consumed throws 'Challenge not found or expired', and the
\* external verifier is not invoked.
C3_AbsentChallengeThrows ==
    (CheckedChallenge /\ (\/ lastVerify.before.issue = 0
                          \/ lastVerify.before.expired
                          \/ lastVerify.before.consumed))
       => /\ lastVerify.outcome = "Challenge not found or expired"
          /\ ~lastVerify.verifierInvoked

\* C3 witness: a verify call presents a challenge that was stored, not
\* deleted, and has expired.
C3_Witness ==
    /\ CheckedChallenge
    /\ lastVerify.before.expired
    /\ ~lastVerify.before.deleted

\* C4: get never returns an entry whose expiresAt is earlier than the
\* current time: it returns the stored entry only while now <= expiresAt,
\* and null for an absent or expired key.
C4_GetNeverReturnsExpired ==
    GotChallenge =>
       /\ lastGet.ret # Null => (lastGet.ret = lastGet.stored /\ lastGet.ret.expiresAt >= lastGet.at)
       /\ (lastGet.stored = Null \/ lastGet.stored.expiresAt < lastGet.at) => lastGet.ret = Null

\* C4 witness: get is called on a key whose entry is still in the Map after
\* its expiry (its timeout has not fired yet).
C4_Witness ==
    /\ GotChallenge
    /\ lastGet.stored # Null
    /\ lastGet.stored.expiresAt < lastGet.at

\* verifyToken, directly or through the facade, has just answered.
VerifiedToken == jwtResult.by # "none"

\* The allow-list the caller of verifyToken chose: its options' algorithms,
\* and HS256 alone when it gave none.
AllowList(options) ==
    IF options.algorithms = UndefinedAlgorithms THEN {"HS256"} ELSE options.algorithms

\* The token's signature is one made with this secret (no signature at all
\* verifies under no secret).
SignatureVerifies(token, secret) ==
    token.form = "jws" /\ token.alg # "none" /\ token.sig = secret

\* C5: verifyToken throws for every token whose header algorithm is not in
\* the verifier's allow-list (HS256 alone by default), whatever its
\* signature: 'none', or another algorithm under the same secret.
C5_AlgorithmAllowList ==
    (VerifiedToken /\ jwtResult.token.alg \notin AllowList(jwtResult.options))
       => ~jwtResult.out.ok

\* C5 witness: a token validly signed with the verifier's secret, under an
\* algorithm outside the allow-list, is verified.
C5_Witness ==
    /\ VerifiedToken
    /\ jwtResult.token.alg = "HS384"
    /\ jwtResult.token.sig = jwtResult.secret
    /\ jwtResult.token.payload.exp = NoExp
    /\ AllowList(jwtResult.options) = {"HS256"}

\* C6: verifyToken returns a payload only for a well-formed token whose
\* signature verifies under the given secret and whose expiry has not
\* passed; and then the payload is the token's.
C6_SignatureAndExpiry ==
    (VerifiedToken /\ jwtResult.out.ok)
       => /\ SignatureVerifies(jwtResult.token, jwtResult.secret)
          /\ (jwtResult.token.payload.exp = NoExp \/ jwtResult.at < jwtResult.token.payload.exp)
          /\ jwtResult.out.payload = jwtResult.token.payload

\* C6 witness: a token that generateToken signed with the verifier's secret
\* is verified after its expiry, and verifyToken throws.
C6_Witness ==
    /\ VerifiedToken
    /\ jwtResult.issued.by = "generateToken"
    /\ jwtResult.issued.secret = jwtResult.secret
    /\ jwtResult.at >= jwtResult.token.payload.exp
    /\ ~jwtResult.out.ok

\* C7: verifyToken enforces the issuer (audience) claim whenever an issuer
\* (audience) value is passed in its options, for every value passed: a
\* token it accepts then carries that value.
C7_IssuerAudienceEnforcedWhenPassed ==
    (VerifiedToken /\ jwtResult.out.ok)
       => /\ jwtResult.options.issuer # Absent
                => jwtResult.token.payload.iss = jwtResult.options.issuer
          /\ jwtResult.options.audience # Absent
                => jwtResult.token.payload.aud = jwtResult.options.audience

\* The token in hand came from generateToken (from the facade) and is
\* verified by verifyToken (by the facade) with the same secret and the same
\* issuer / audience options, before its expiry.
RoundTrip ==
    /\ \/ jwtResult.issued.by = "generateToken" /\ jwtResult.by = "verifyToken"
       \/ jwtResult.issued.by = "ShieldForge" /\ jwtResult.by = "ShieldForge"
    /\ jwtResult.issued.secret = jwtResult.secret
    /\ jwtResult.issued.options.issuer = jwtResult.options.issuer
    /\ jwtResult.issued.options.audience = jwtResult.options.audience
    /\ jwtResult.at < jwtResult.token.payload.exp

\* C8: verifyToken(generateToken(p, s, expiry, o), s, o), evaluated before
\* the expiry, returns a payload with p's userId and email; likewise
\* ShieldForge.verifyToken(ShieldForge.generateToken(p)) under every
\* configuration of the facade.
C8_RoundTrip ==
    RoundTrip
       => /\ jwtResult.out.ok
          /\ jwtResult.out.payload.userId = jwtResult.issued.payload.userId
          /\ jwtResult.out.payload.email = jwtResult.issued.payload.email

\* C8 witness: a round trip of generateToken and verifyToken with an issuer
\* in the options.
C8_Witness ==
    /\ RoundTrip
    /\ jwtResult.by = "verifyToken"
    /\ jwtResult.options.issuer \in Issuers
    /\ jwtResult.out.ok

\* verifyResetCode has just answered.
VerifiedResetCode == resetResult.code # "none"

\* C9: verifyResetCode(c, hashResetCode(c)) is true, and
\* verifyResetCode(c2, hashResetCode(c)) is false for every c2 other than c.
C9_VerifyMatchesCode ==
    (VerifiedResetCode /\ ~resetAltered)
       => /\ ~resetResult.out.threw
          /\ resetResult.out.ret = (resetResult.code = resetCode)

\* C9 witness: the hash of one code is verified against another code.
C9_Witness ==
    /\ VerifiedResetCode
    /\ ~resetAltered
    /\ resetResult.code # resetCode

\* A well-formed digest: 64 characters, each a hex digit.
WellFormedDigest(str) ==
    /\ Len(str) = 2 * DigestBytes
    /\ \A i \in 1..Len(str) : unhex(str[i]) >= 0

\* C10: verifyResetCode returns false, and does not throw, for every
\* storedHash that is not a well-formed digest of the right length, whatever
\* the code.
C10_MalformedHashIsFalse ==
    (VerifiedResetCode /\ ~WellFormedDigest(resetResult.storedHash))
       => /\ ~resetResult.out.threw
          /\ resetResult.out.ret = FALSE

\* generateResetCode / generateSecureToken has just been called.
Generated == genResult.fn # "none"
GenLength ==
    IF genResult.lengthArg # UndefinedLength THEN genResult.lengthArg
    ELSE IF genResult.fn = "generateResetCode" THEN DefaultResetCodeLength
         ELSE DefaultTokenLength
GenAlphabet ==
    IF genResult.fn = "generateResetCode"
    THEN {DigitChars[i] : i \in 1..Len(DigitChars)}
    ELSE {AlphanumericChars[i] : i \in 1..Len(AlphanumericChars)}
SourceAvailable == genResult.platform.getRandomValues \/ genResult.platform.randomBytes

\* C11: on a runtime with a random source, generateResetCode(L) returns
\* exactly L digits and generateSecureToken(L) exactly L alphanumeric
\* characters, for every L >= 1 and all random bytes; the default lengths
\* are 6 and 32.
C11_LengthAndAlphabet ==
    (Generated /\ SourceAvailable)
       => /\ ~genResult.out.threw
          /\ Len(genResult.out.value) = GenLength
          /\ \A i \in 1..Len(genResult.out.value) : genResult.out.value[i] \in GenAlphabet

\* C12: a code is returned only from bytes of crypto.getRandomValues or,
\* when that is absent, of crypto.randomBytes; with neither the call throws.
C12_OnlyCryptographicSources ==
    Generated
       => /\ ~genResult.out.threw
             => /\ genResult.out.source \in {"crypto.getRandomValues", "crypto.randomBytes"}
                /\ (genResult.out.source = "crypto.getRandomValues") = genResult.platform.getRandomValues
                /\ (genResult.out.source = "crypto.randomBytes") => genResult.platform.randomBytes
          /\ ~SourceAvailable => genResult.out.threw

\* C12 witness: a call on a runtime with neither source has thrown.
C12_Witness ==
    /\ Generated
    /\ ~SourceAvailable
    /\ genResult.out.threw

\* A reset request / a reset has just been handled.
RequestedReset == flowResult.op = "request"
RedeemedReset == flowResult.op = "reset"
ResetOps == {"createPasswordReset", "getPasswordReset", "deletePasswordReset"}
FlowCalls == {flowResult.calls[i] : i \in 1..Len(flowResult.calls)}
FlowMails == {flowResult.mails[i] : i \in 1..Len(flowResult.mails)}

UnknownEmail == CHOOSE e \in Emails : getUserByEmail(flowResult.before, e) = NoUser
OutcomeForUnknownEmail ==
    IF flowResult.api = "graphql"
    THEN requestPasswordReset(flowResult.before, UnknownEmail, flowResult.code,
                              flowResult.sendFails, flowResult.at).out
    ELSE fastifyResetRequest(flowResult.before, UnknownEmail, flowResult.code,
                             flowResult.sendFails, flowResult.hook, flowResult.at).out

\* C14: a reset request reports the same outcome whether or not the e-mail
\* belongs to a user, for every behaviour of the mailer, and creates no
\* reset record when the user does not exist.
C14_NoEmailEnumeration ==
    RequestedReset
       => /\ flowResult.out = OutcomeForUnknownEmail
          /\ getUserByEmail(flowResult.before, flowResult.email) = NoUser
                => /\ flowResult.calls = <<>>
                   /\ dataSource = flowResult.before

\* The record the data source held for the submitted code.
StoredReset == getPasswordReset(flowResult.before, hashResetCode(join(flowResult.code)))

\* C15: resetPassword with a code whose record is past its expiresAt fails
\* with 'Reset code has expired', deletes the record and updates no
\* password; with a code that has no record it fails with 'Invalid or
\* expired reset code' and changes nothing.
C15_ExpiredAndUnknownCodes ==
    RedeemedReset
       => /\ (StoredReset # NoReset /\ flowResult.at > StoredReset.expiresAt)
                => /\ flowResult.out = Failed(flowResult.out.status, "Reset code has expired")
                   /\ hashResetCode(join(flowResult.code)) \notin DOMAIN dataSource.resets
                   /\ dataSource.users = flowResult.before.users
          /\ StoredReset = NoReset
                => /\ flowResult.out = Failed(flowResult.out.status, "Invalid or expired reset code")
                   /\ dataSource = flowResult.before

\* C15 witness: a code past its expiry has been submitted, with a password
\* that would have been accepted.
C15_Witness ==
    /\ RedeemedReset
    /\ StoredReset # NoReset
    /\ flowResult.at > StoredReset.expiresAt
    /\ Len(flowResult.calls) = 2

\* C16: a challenge that was stored and not deleted afterwards is returned
\* by get, as its most recent store recorded it, at every time before the
\* expiresAt of that store, whatever other calls and timer firings happened,
\* earlier stores and deletes of the same string included.
C16_StoredChallengeIsReturned ==
    (/\ GotChallenge
     /\ lastGet.before.issue # 0
     /\ ~lastGet.before.deleted
     /\ lastGet.at < hist.expiry[lastGet.challenge])
       => /\ lastGet.ret # Null
          /\ lastGet.ret.challenge = lastGet.challenge
          /\ lastGet.ret.expiresAt = hist.expiry[lastGet.challenge]

\* C17: the record of a stored challenge is never changed by a later store,
\* get, delete or clearExpired call; it can only be removed.
C17_RecordsAreImmutable ==
    lastCall.op # "none"
       => \A X \in DOMAIN lastCall.before.challenges :
             X \in DOMAIN challengeStore.challenges
                => challengeStore.challenges[X] = lastCall.before.challenges[X]

\* The entry that the store with handle i made for X is in the map.
Held(X, i) == X \in DOMAIN challengeStore.challenges /\ hist.issue[X] = i

\* C18: every stored challenge is eventually removed from the map once its
\* TTL has elapsed, even with no further get, delete or clearExpired call,
\* provided the scheduled timeouts eventually fire.
C18_EventuallyEvicted ==
    \A X \in ChallengeStrings : \A i \in 1..MaxTimers :
        (Held(X, i) /\ now >= challengeStore.challenges[X].expiresAt) ~> ~Held(X, i)

\* C18 witness: an entry is still in the map when its TTL has elapsed, with
\* its timeout due.
C18_Witness ==
    \E X \in DOMAIN challengeStore.challenges :
        /\ now >= challengeStore.challenges[X].expiresAt
        /\ \E x \in challengeStore.scheduled :
              x.id = challengeStore.timers[X] /\ x.fireAt <= now

\* The entries clearExpired found that were not past their expiry.
Unexpired ==
    {X \in DOMAIN lastCall.before.challenges :
        ~(lastCall.before.challenges[X].expiresAt < lastCall.at)}

\* C19: clearExpired removes exactly the entries whose expiresAt is earlier
\* than now, and leaves every other entry unchanged and retrievable by get.
C19_ClearExpiredRemovesExactlyExpired ==
    lastCall.op = "clearExpired"
       => /\ DOMAIN challengeStore.challenges = Unexpired
          /\ \A X \in Unexpired :
                /\ challengeStore.challenges[X] = lastCall.before.challenges[X]
                /\ get(challengeStore, X, lastCall.at).ret = lastCall.before.challenges[X]

\* C19 witness: clearExpired has removed an expired entry and kept one that
\* expires at this very instant.
C19_Witness ==
    /\ lastCall.op = "clearExpired"
    /\ DOMAIN lastCall.before.challenges # Unexpired
    /\ \E X \in Unexpired : lastCall.before.challenges[X].expiresAt = lastCall.at

\* C20: delete is idempotent and touches one key only: deleting an absent
\* challenge leaves the store unchanged, a second delete(X) changes nothing,
\* and the entries of the other challenges stay as they were.
C20_DeleteIsIdempotent ==
    lastCall.op = "delete"
       => /\ lastCall.challenge \notin DOMAIN challengeStore.challenges
          /\ lastCall.challenge \notin DOMAIN lastCall.before.challenges
                => challengeStore = lastCall.before
          /\ delete(challengeStore, lastCall.challenge) = challengeStore
          /\ \A Y \in DOMAIN lastCall.before.challenges \ {lastCall.challenge} :
                /\ Y \in DOMAIN challengeStore.challenges
                /\ challengeStore.challenges[Y] = lastCall.before.challenges[Y]
                /\ challengeStore.timers[Y] = lastCall.before.timers[Y]

\* C20 witness: an absent challenge has been deleted while another one is
\* stored.
C20_Witness ==
    /\ lastCall.op = "delete"
    /\ lastCall.challenge \notin DOMAIN lastCall.before.challenges
    /\ DOMAIN lastCall.before.challenges # {}

\* generateRegistrationOptions / generateAuthenticationOptions has returned.
IssuedChallenge ==
    lastCall.op \in {"generateRegistrationOptions", "generateAuthenticationOptions"}

\* C21: when generateRegistrationOptions(user) returns, options.challenge is
\* in the store bound to user.id with expiry = store time + challengeTTL;
\* the challenge of generateAuthenticationOptions is stored with no user and
\* the same TTL; challengeTTL is 5 minutes when the configuration gives none.
C21_IssuedChallengeIsStored ==
    /\ IssuedChallenge
          => /\ lastCall.challenge \in DOMAIN challengeStore.challenges
             /\ challengeStore.challenges[lastCall.challenge] =
                   [challenge |-> lastCall.challenge,
                    userId    |-> IF lastCall.op = "generateRegistrationOptions"
                                  THEN lastCall.userId ELSE "undefined",
                    createdAt |-> lastCall.at,
                    expiresAt |-> lastCall.at + config.challengeTTL]
             /\ lastCall.op = "generateRegistrationOptions" => lastCall.userId \in UserIds \ {"undefined"}
    /\ \A cfg \in PasskeyConfigs :
          cfg.challengeTTL = UndefinedTTL
             => PasskeyService(cfg, "service").challengeTTL = FiveMinutes

\* C21 witness: a service configured without challengeTTL has issued a
\* registration challenge.
C21_Witness ==
    /\ lastCall.op = "generateRegistrationOptions"
    /\ config.challengeTTL = FiveMinutes
    /\ challengeStore.challenges[lastCall.challenge].expiresAt = lastCall.at + FiveMinutes

\* The challenge a verify call has just answered about.
VerifyChallenge == lastVerify.expectedChallenge

\* C25: a verify call deletes the challenge if and only if the external
\* verifier returns, verified or not; when the verifier throws, the error
\* propagates and the store is left as it was, the challenge included.
C25_DeletedIffVerifierReturns ==
    [][/\ lastVerify'.outcome \in {"verified", "not verified"}
          => challengeStore' = delete(challengeStore, lastVerify'.expectedChallenge)
       /\ lastVerify'.outcome = "verifier error"
          => challengeStore' = challengeStore
       /\ lastVerify'.outcome \in {"verifying", "Challenge not found or expired"}
          => challengeStore'.challenges =
                [X \in DOMAIN challengeStore.challenges \ 
                       {Y \in {lastVerify'.expectedChallenge} \cap DOMAIN challengeStore.challenges :
                            now > challengeStore.challenges[Y].expiresAt}
                   |-> challengeStore.challenges[X]]]_vars

\* C25 witness: the challenge of a call whose verifier threw earlier is
\* still in the store and passes the challenge check of a later call.
C25_Witness ==
    /\ lastVerify.outcome = "verifying"
    /\ VerifyChallenge \in DOMAIN challengeStore.challenges
    /\ VerifyChallenge \in hist.rejected

\* C26: the challenge check passes exactly when the challenge is present and
\* unexpired in the store: neither the method that issued it nor the userId
\* bound to it is looked at.
C26_CheckIgnoresBinding ==
    [][lastVerify'.outcome \in {"verifying", "Challenge not found or expired"}
          => (lastVerify'.outcome = "verifying")
                = /\ lastVerify'.expectedChallenge \in DOMAIN challengeStore.challenges
                  /\ ~(now > challengeStore.challenges[lastVerify'.expectedChallenge].expiresAt)]_vars

\* C26 witness: verifyRegistration passes the check with a challenge that
\* generateAuthenticationOptions issued (no user bound to it).
C26_Witness ==
    /\ lastVerify.outcome = "verifying"
    /\ lastVerify.method = "verifyRegistration"
    /\ VerifyChallenge \in DOMAIN challengeStore.challenges
    /\ challengeStore.challenges[VerifyChallenge].userId = "undefined"

(***************************************************************************)
(* C22.  Every store / get / delete / clearExpired of a PasskeyService     *)
(* goes to the store injected in its configuration when one is given, and  *)
(* otherwise to a store no other instance and no module-level function     *)
(* uses: a call on an instance leaves every other store object, the        *)
(* module-level defaultStore among them, as it was.  A challenge issued    *)
(* only by default-configured instances is not found by another instance   *)
(* nor by getChallenge.                                                    *)
(***************************************************************************)
DefaultConfigured == {i \in Instances : InstanceConfig(i).challengeStore = NoStore}
LookUps == {"verifyRegistration", "verifyAuthentication", "getChallenge", "get"}

C22_ServiceUsesItsOwnStore ==
    /\ instLast.by \in Instances =>
          LET by  == instLast.by
              sid == services[by].challengeStore
              cfg == InstanceConfig(by)
          IN  /\ cfg.challengeStore # NoStore => sid = cfg.challengeStore
              /\ cfg.challengeStore = NoStore =>
                    /\ sid \notin {"defaultStore", "injected"}
                    /\ \A j \in Instances \ {by} : services[j].challengeStore # sid
              /\ \A id \in StoreIds \ {sid} : heap[id] = instLast.before[id]
    /\ instLast.by = "module" =>
          \A id \in StoreIds \ {"defaultStore"} : heap[id] = instLast.before[id]
    /\ /\ instLast.op \in LookUps
       /\ issuedBy[instLast.challenge] # {}
       /\ issuedBy[instLast.challenge] \subseteq DefaultConfigured \ {instLast.by}
       => ~instLast.found

\* Instance a issued X, which is still in a's store; b's verifyAuthentication
\* of X did not find it.
C22_Witness ==
    /\ instLast.by = "b"
    /\ instLast.op = "verifyAuthentication"
    /\ instLast.challenge = "X"
    /\ issuedBy["X"] = {"a"}
    /\ "X" \in DOMAIN heap[services["a"].challengeStore].challenges
    /\ ~instLast.found

(***************************************************************************)
(* C30.  Over the 256 values of a random byte, generateResetCode produces  *)
(* each of the digits 0-5 for 26 byte values and each of 6-9 for 25, the   *)
(* digit being b mod 10; generateSecureToken produces each of the first 8  *)
(* symbols of its alphabet for 5 byte values and each of the other 54 for  *)
(* 4.                                                                      *)
(***************************************************************************)
\* The 0-based place of a character in an alphabet of distinct characters.
indexOf(chars, c) == (CHOOSE k \in 1..Len(chars) : chars[k] = c) - 1
AnyPlatform == [getRandomValues |-> TRUE, randomBytes |-> TRUE]
\* The byte values for which the function gives the same character.
sameResetCode(c) == {b \in Bytes : generateResetCode(1, AnyPlatform, <<b>>).value = <<c>>}
sameSecureToken(c) == {b \in Bytes : generateSecureToken(1, AnyPlatform, <<b>>).value = <<c>>}

C30_ModuloBias ==
    /\ byteResult.fn = "generateResetCode" =>
          LET c == byteResult.out.value[1]
          IN  /\ ~byteResult.out.threw
              /\ indexOf(DigitChars, c) = byteResult.byte % 10
              /\ Cardinality(sameResetCode(c)) =
                    IF indexOf(DigitChars, c) <= 5 THEN 26 ELSE 25
    /\ byteResult.fn = "generateSecureToken" =>
          LET c == byteResult.out.value[1]
          IN  /\ ~byteResult.out.threw
              /\ indexOf(AlphanumericChars, c) = byteResult.byte % 62
              /\ Cardinality(sameSecureToken(c)) =
                    IF indexOf(AlphanumericChars, c) < 8 THEN 5 ELSE 4

\* Byte 255 gives the digit 5, one of the digits 26 byte values lead to.
C30_Witness ==
    /\ byteResult.fn = "generateResetCode"
    /\ byteResult.byte = 255
    /\ byteResult.out.value = <<"5">>
    /\ Cardinality(sameResetCode("5")) = 26
    /\ Cardinality(sameResetCode("6")) = 25

(***************************************************************************)
(* C23.  After the onRequest hook, request.user is the sanitized user      *)
(* whenever the session cookie or the Authorization Bearer header carries  *)
(* a token that verifies and whose userId resolves to an existing user;    *)
(* otherwise request.user is null; the hook never throws.                  *)
(***************************************************************************)
\* The token a header carries, NoToken when it carries none.
cookieToken(cookie) ==
    IF cookie.present /\ cookie.match THEN cookie.value.encoded ELSE NoToken
bearerToken(authorization) ==
    IF authorization.scheme = "Bearer " THEN authorization.rest ELSE NoToken
\* The token verifies and its userId resolves to an existing user.
resolves(token, dbFails) ==
    /\ token # NoToken
    /\ ShieldForge_verifyToken(hookShieldForge, token, HookNow).ok
    /\ ~dbFails
    /\ \E u \in StoredUsers :
          u.id = ShieldForge_verifyToken(hookShieldForge, token, HookNow).payload.userId

C23_HookSetsUserAndNeverFails ==
    request.handled =>
       LET ck == cookieToken(request.cookie)
           br == bearerToken(request.authorization)
       IN  /\ ~request.out.threw
           /\ resolves(ck, request.dbFails) \/ resolves(br, request.dbFails)
                 => /\ request.out.user # NullUser
                    /\ request.out.user \in {sanitizeUser(u) : u \in StoredUsers}
                    /\ "passwordHash" \notin DOMAIN request.out.user
           /\ ~(resolves(ck, request.dbFails) \/ resolves(br, request.dbFails))
                 => request.out.user = NullUser

(***************************************************************************)
(* C28.  A successful resetPassword deletes the reset record of the        *)
(* redeemed code and no other: every other record is as it was, and every  *)
(* other code that was redeemable stays redeemable up to its own expiry.   *)
(* requestPasswordReset makes no deletePasswordReset call, leaves the      *)
(* records of other codes as they were, and every code that was            *)
(* redeemable before it is redeemable after it, for the same user.         *)
(***************************************************************************)
\* The code has a record that has not expired at time t.
redeemable(D, code, t) ==
    /\ getPasswordReset(D, hashResetCode(join(code))) # NoReset
    /\ t <= getPasswordReset(D, hashResetCode(join(code))).expiresAt
\* The deletePasswordReset calls among the data-source calls of a request.
deletions(calls) == {i \in 1..Len(calls) : calls[i].op = "deletePasswordReset"}
FlowTimes == 0..(MaxFlowTime + ResetLifetime)
\* The records of the other codes are what they were before the request.
othersUntouched(codeHash) ==
    \A h \in DOMAIN flowResult.before.resets \ {codeHash} :
        /\ h \in DOMAIN dataSource.resets
        /\ dataSource.resets[h] = flowResult.before.resets[h]
\* A redemption of the code at time t succeeds and sets the password of user.
redeemsFor(D, code, t, userId) ==
    LET r == resetPassword(D, code, "Str0ng!passphrase", t)
    IN  /\ r.out.ok
        /\ \E u \in r.D.users : u.id = userId /\ u.passwordHash = hashPassword("Str0ng!passphrase")

C28_OnlyTheRedeemedRecordIsDeleted ==
    LET codeHash == hashResetCode(join(flowResult.code))
    IN  /\ flowResult.op = "reset" /\ flowResult.out.ok =>
              /\ codeHash \in DOMAIN flowResult.before.resets
              /\ codeHash \notin DOMAIN dataSource.resets
              /\ othersUntouched(codeHash)
              /\ \A i \in deletions(flowResult.calls) : flowResult.calls[i].arg = codeHash
              /\ \A c \in GeneratedCodes \ {flowResult.code}, t \in FlowTimes :
                    t >= flowResult.at /\ redeemable(flowResult.before, c, t)
                       => redeemsFor(dataSource, c, t,
                             getPasswordReset(flowResult.before, hashResetCode(join(c))).userId)
        /\ flowResult.op = "request" =>
              /\ deletions(flowResult.calls) = {}
              /\ othersUntouched(codeHash)
              /\ \A c \in GeneratedCodes, t \in FlowTimes :
                    t >= flowResult.at /\ redeemable(flowResult.before, c, t)
                       => redeemsFor(dataSource, c, t,
                             getPasswordReset(flowResult.before, hashResetCode(join(c))).userId)

\* A code was redeemed while the record of another code was outstanding,
\* and that record is still there.
C28_Witness ==
    /\ flowResult.op = "reset"
    /\ flowResult.out.ok
    /\ \E c \in GeneratedCodes \ {flowResult.code} :
          /\ redeemable(flowResult.before, c, flowResult.at)
          /\ redeemable(dataSource, c, flowResult.at)

(***************************************************************************)
(* C27.  Of the resetPassword calls that present the same valid,           *)
(* unexpired reset code, in any interleaving, at most one updates the      *)
(* user's password, and every other such call that has finished failed     *)
(* with 'Invalid or expired reset code'.                                   *)
(***************************************************************************)
\* The calls that have made their updateUser call.
updaters == {p \in Racers : racers[p].pc = "updated" \/ (racers[p].pc = "done" /\ racers[p].out.ok)}

C27_AtMostOneRedemption ==
    /\ Cardinality(updaters) <= 1
    /\ \A p \in Racers \ updaters :
          /\ updaters # {}
          /\ racers[p].pc = "done"
          /\ racers[p].newPassword # "weak"
          /\ racers[p].out.error # "Reset code has expired"
          => racers[p].out.error = "Invalid or expired reset code"

(***************************************************************************)
(* C24.  After login(t, u) the provider reports isAuthenticated with token *)
(* t and user u; after logout() it reports not authenticated, token and    *)
(* user null, and in token mode the token and user keys are not in         *)
(* localStorage; whatever login and logout calls came before.              *)
(***************************************************************************)
afterLogin == authLast.op = "login"
afterLogout == authLast.op = "logout"
loggedOutState ==
    /\ ~isAuthenticated(provider.props, auth)
    /\ auth.token = NullToken
    /\ auth.user = NullAuthUser
    /\ provider.props.mode = "token" =>
          localStorage.token = NoItem /\ localStorage.user = NoItem

\* C24 as stated: login(t, u) is followed by isAuthenticated for every
\* token string t.
C24_LoginLogoutState ==
    /\ afterLogin =>
          /\ isAuthenticated(provider.props, auth)
          /\ auth.token = authLast.token
          /\ auth.user = authLast.user
    /\ afterLogout => loggedOutState

\* C24, amended: isAuthenticated is reported after login(t, u) in cookie
\* mode, and in token mode when t is not the empty string.
C24_LoginLogoutState_NonEmptyToken ==
    /\ afterLogin =>
          /\ auth.token = authLast.token
          /\ auth.user = authLast.user
          /\ isAuthenticated(provider.props, auth)
                <=> (provider.props.mode = "cookie" \/ authLast.token # "")
    /\ afterLogout => loggedOutState

\* A login in token mode: the provider is authenticated with the new token
\* and user, which are in localStorage.
C24_Witness ==
    /\ afterLogin
    /\ provider.props.mode = "token"
    /\ provider.props.enableCrossTabSync
    /\ authLast.token = "jwt-2"
    /\ auth = [token |-> "jwt-2", user |-> "bob", isLoading |-> FALSE]
    /\ isAuthenticated(provider.props, auth)
    /\ localStorage = [token |-> "jwt-2", user |-> JSON_stringify("bob"), event |-> "login"]

(***************************************************************************)
(* C29.  A logout() does not cancel a refreshAuth() in flight: when the    *)
(* call settles after the logout with a session, the provider holds the    *)
(* refreshed token and user, is authenticated and, in token mode, has      *)
(* written them to localStorage; when it settles with null or a rejection  *)
(* the provider is not authenticated; isLoading is false either way.       *)
(***************************************************************************)
\* A refreshAuth call has settled that a logout() overtook during its await.
overtakenRefresh == authLast.op = "refreshAuth" /\ authLast.loggedOut
refreshedState ==
    /\ auth.token = authLast.result.token
    /\ auth.user = authLast.result.user
    /\ provider.props.mode = "token" =>
          /\ localStorage.token = authLast.result.token
          /\ localStorage.user = JSON_stringify(authLast.result.user)

\* C29 as stated: a session of any token string leaves the provider
\* authenticated.
C29_LogoutDoesNotCancelRefresh ==
    overtakenRefresh =>
       /\ ~auth.isLoading
       /\ authLast.result.kind = "session" =>
             refreshedState /\ isAuthenticated(provider.props, auth)
       /\ authLast.result.kind # "session" =>
             /\ ~isAuthenticated(provider.props, auth)
             /\ auth.token = NullToken /\ auth.user = NullAuthUser

\* C29, amended: with a session the provider holds the refreshed token and
\* user, and reports isAuthenticated in cookie mode, and in token mode when
\* the session's token is not the empty string.
C29_LogoutDoesNotCancelRefresh_NonEmptyToken ==
    overtakenRefresh =>
       /\ ~auth.isLoading
       /\ authLast.result.kind = "session" =>
             /\ refreshedState
             /\ isAuthenticated(provider.props, auth)
                   <=> (provider.props.mode = "cookie" \/ authLast.result.token # "")
       /\ authLast.result.kind # "session" =>
             /\ ~isAuthenticated(provider.props, auth)
             /\ auth.token = NullToken /\ auth.user = NullAuthUser

\* In token mode a refreshAuth call settled with a session after a logout():
\* the provider is authenticated again and the session is in localStorage.
C29_Witness ==
    /\ overtakenRefresh
    /\ provider.props.mode = "token"
    /\ authLast.result = [kind |-> "session", token |-> "jwt-1", user |-> "ann"]
    /\ isAuthenticated(provider.props, auth)
    /\ localStorage.token = "jwt-1"
    /\ ~auth.isLoading

====
